---- MODULE Spec2Model ----
(***************************************************************************)
(* Comercium: the chat request / block / thread state machine of           *)
(* chat_interno and the cart / order logic of mercado, as state machines   *)
(* over the rows of the relational tables.                                 *)
(***************************************************************************)
EXTENDS Integers, FiniteSets, Sequences, TLC

(* ------------------------------ bounds -------------------------------- *)
\* ChatRequest rows ever inserted
MaxRequests == 2
\* DirectMessage rows ever inserted
MaxMessages == 2
\* Product rows ever inserted
MaxProducts == 2
\* the largest stock a seller enters
MaxStock == 2
\* the products on sale in the order specification
MaxCatalogue == 1
\* Order rows ever inserted by direct calls of the order service
MaxOrders == 1

\* the ids of the user accounts
Users == {1, 2}

(* --------------------------- chat_interno ----------------------------- *)
STATUS_REQUESTED == "requested"
STATUS_ACCEPTED == "accepted"
STATUS_DECLINED == "declined"

VARIABLES
    now,          \* timezone.now(), a logical clock starting at 1
    blocks,       \* BlockedUser rows: set of <<blocker, blocked>>
    requests,     \* ChatRequest rows: [id, requester, target, status, responded_at]; responded_at = 0 is NULL
    req_seq,      \* last id handed out by the ChatRequest table
    threads,      \* DirectMessageThread rows: [id, user1, user2]
    thread_seq,   \* last id handed out by the DirectMessageThread table
    dms,          \* DirectMessage rows: [id, thread, user, text]
    chat_messages, \* ChatMessage rows of the public room: [id, user, text]
    received,     \* the polling client: per channel (0 the public room, else a thread id)
                  \*   the ids of the messages it has received, in the order received
    resp,         \* the response sent by the last step, NoResp when it sent none
    inflight,     \* per user: the handler in progress between two DB statements
    pay_inflight, \* per worker: the payment_success request it is serving, between two
                  \*   DB statements
    accounts,     \* User rows: the ids of the accounts that exist
    is_staff,     \* the users with is_staff
    is_superuser, \* the users with is_superuser
    mp_connected, \* the users whose Profile has mp_access_token and mp_user_id
    products,     \* Product rows: [id, seller, title, price, stock, active]; price in cents
    prod_seq,     \* last id handed out by the Product table
    carts,        \* Cart rows: the users that have a cart
    cart_items,   \* CartItem rows: per cart owner, the rows [product, quantity] in id order
    cart_updated_at, \* Cart.updated_at per cart owner, 0 for a user without a cart
    cart_touched_at, \* history: per cart owner, when the cart was created or its items last changed
    orders,       \* Order rows: [id, buyer, total, status, payment_id, payment_status]; buyer = 0 is NULL
    order_items,  \* OrderItem rows: [id, order, product, seller, product_title, product_price, quantity]
    notifications \* Notification rows: [id, recipient, notification_type, related_user,
                  \*   related_product_id, related_order_id, count, total]; count and total
                  \*   are the figures in the title and message of a new_sale notification

chatVars == <<now, pay_inflight, chat_messages, received, blocks, requests, req_seq, threads, thread_seq, dms, resp, inflight>>
mercadoVars == <<accounts, is_staff, is_superuser, mp_connected, products, prod_seq, carts, cart_items,
                 cart_updated_at, cart_touched_at, orders, order_items, notifications>>
vars == <<chatVars, mercadoVars>>
chatVarsButResp == <<now, pay_inflight, chat_messages, received, blocks, requests, req_seq, threads, thread_seq, dms, inflight>>

\* the workers that serve payment_success requests at the same time
MaxWorkers == 2
Workers == 1..MaxWorkers

\* a worker that serves no payment_success request
PayIdle == [pc |-> "idle", user |-> 0, payment_id |-> "", status |-> "", order |-> 0,
            items |-> <<>>, products |-> {}]

Idle == [pc |-> "idle", other |-> 0, cr |-> 0, cr_status |-> "", is_ajax |-> FALSE]

\* resp: the view, the logged-in user, the id in the URL, the X-Requested-With flag,
\* the HTTP status, whether the view found a block, the level of the message it
\* flashed with django.contrib.messages, and the message ids of a JSON body
NoResp == [op |-> "none", user |-> 0, arg |-> 0, is_ajax |-> FALSE, status |-> 0,
           is_blocked |-> FALSE, level |-> "", body |-> <<>>]

Response(op, user, arg, is_ajax, status, is_blocked) ==
    [op |-> op, user |-> user, arg |-> arg, is_ajax |-> is_ajax, status |-> status,
     is_blocked |-> is_blocked, level |-> "", body |-> <<>>]

\* messages.<level>(request, ...): the AJAX branches return before flashing
Flash(r, level) == IF r.is_ajax THEN r ELSE [r EXCEPT !.level = level]

\* a check that only sees the blocks user_a made
_is_blocked_one_way(user_a, user_b) == <<user_a, user_b>> \in blocks

\* _is_blocked: a block in either direction
_is_blocked(user_a, user_b) ==
    <<user_a, user_b>> \in blocks \/ <<user_b, user_a>> \in blocks

\* the (user1, user2) ordering every view applies before touching threads
ThreadPair(u, o) == IF u < o THEN <<u, o>> ELSE <<o, u>>

ThreadsOf(a, b) == {t \in threads : t.user1 = a /\ t.user2 = b}

participants(t) == {t.user1, t.user2}

\* ChatRequest rows between two users in either direction with a status
RequestsBetween(u, o, status) ==
    {r \in requests : /\ \/ (r.requester = u /\ r.target = o)
                         \/ (r.requester = o /\ r.target = u)
                      /\ r.status = status}

PendingFrom(u, o) ==
    {r \in requests : r.requester = u /\ r.target = o /\ r.status = STATUS_REQUESTED}

\* the methods NotificationService defines
NotificationServiceMethods ==
    {"create_sale_notification", "create_follower_notification",
     "create_new_product_notification", "create_low_stock_notification",
     "create_sold_out_notification"}

\* objects.create() in place of get_or_create()
RequestCreate(u, o) ==
    requests \cup {[id |-> req_seq + 1, requester |-> u, target |-> o,
                    status |-> STATUS_REQUESTED, responded_at |-> 0]}

\* ChatRequest.objects.get_or_create(requester, target, status=requested): the rows afterwards
RequestGetOrCreate(u, o) ==
    IF PendingFrom(u, o) # {}
    THEN requests
    ELSE requests \cup {[id |-> req_seq + 1, requester |-> u, target |-> o,
                         status |-> STATUS_REQUESTED, responded_at |-> 0]}

\* create() in place of get_or_create()
ThreadCreate(a, b) ==
    threads \cup {[id |-> thread_seq + 1, user1 |-> a, user2 |-> b]}

\* DirectMessageThread.objects.get_or_create(user1=a, user2=b): the rows afterwards
ThreadGetOrCreate(a, b) ==
    IF ThreadsOf(a, b) # {}
    THEN threads
    ELSE threads \cup {[id |-> thread_seq + 1, user1 |-> a, user2 |-> b]}

\* what a client polls: 0 is the public room, the others are thread ids
Channels == 0..1

ChatInit ==
    /\ now = 1
    /\ blocks = {}
    /\ requests = {}
    /\ req_seq = 0
    /\ threads = {}
    /\ thread_seq = 0
    /\ dms = {}
    /\ chat_messages = {}
    /\ received = [channel \in Channels |-> <<>>]
    /\ resp = NoResp
    /\ inflight = [u \in Users |-> Idle]
    /\ pay_inflight = [w \in Workers |-> PayIdle]

\* request_send: POST by user for the user with id other
request_send(user, other, is_ajax) ==
    /\ IF other = user
       THEN /\ resp' = Flash(Response("request_send", user, other, is_ajax,
                                IF is_ajax THEN 400 ELSE 302, FALSE), "warning")
            /\ UNCHANGED <<requests, req_seq>>
       ELSE IF _is_blocked(user, other)
       THEN /\ resp' = Flash(Response("request_send", user, other, is_ajax,
                                IF is_ajax THEN 403 ELSE 302, TRUE), "error")
            /\ UNCHANGED <<requests, req_seq>>
       ELSE LET created == PendingFrom(user, other) = {} IN
            /\ created => req_seq < MaxRequests
            /\ requests' = RequestGetOrCreate(user, other)
            /\ req_seq' = IF created THEN req_seq + 1 ELSE req_seq
            /\ resp' = IF created /\ "create_chat_request_notification" \notin NotificationServiceMethods
                        THEN Response("request_send", user, other, is_ajax, 500, FALSE)
                        ELSE Flash(Response("request_send", user, other, is_ajax,
                                            IF is_ajax THEN 200 ELSE 302, FALSE), "success")
    /\ UNCHANGED <<now, pay_inflight, chat_messages, received, blocks, threads, thread_seq, dms, inflight>>

\* save(update_fields=["status", "responded_at"]): the rows of ChatRequest after the
\* row with the id of the in-memory instance cr got its status and responded_at
SaveRequest(cr) ==
    {IF r.id = cr.id
     THEN [r EXCEPT !.status = cr.status, !.responded_at = cr.responded_at]
     ELSE r : r \in requests}

\* accept() that does not look at the status
accept_any_status(cr) ==
    SaveRequest([cr EXCEPT !.status = STATUS_ACCEPTED, !.responded_at = now])

\* ChatRequest.accept() on the in-memory instance cr: the rows of ChatRequest afterwards
accept(cr) ==
    IF cr.status # STATUS_REQUESTED
    THEN requests
    ELSE SaveRequest([cr EXCEPT !.status = STATUS_ACCEPTED, !.responded_at = now])

\* ChatRequest.decline() on the in-memory instance cr: the rows of ChatRequest afterwards
decline(cr) ==
    IF cr.status # STATUS_REQUESTED
    THEN requests
    ELSE SaveRequest([cr EXCEPT !.status = STATUS_DECLINED, !.responded_at = now])

\* request_accept from cr.accept() on (lines 470-483); cr is the in-memory instance
AcceptAndOpenThread(user, cr, is_ajax) ==
    LET pair == ThreadPair(cr.requester, cr.target) IN
    /\ requests' = accept(cr)
    /\ IF "create_chat_accepted_notification" \notin NotificationServiceMethods
       THEN /\ resp' = Response("request_accept", user, cr.id, is_ajax, 500, FALSE)
            /\ UNCHANGED <<threads, thread_seq>>
       ELSE /\ threads' = ThreadGetOrCreate(pair[1], pair[2])
            /\ thread_seq' = IF ThreadsOf(pair[1], pair[2]) = {} THEN thread_seq + 1 ELSE thread_seq
            /\ resp' = Flash(Response("request_accept", user, cr.id, is_ajax,
                                IF is_ajax THEN 200 ELSE 302, FALSE), "success")

\* request_accept: POST by user for the ChatRequest with id request_id
request_accept(user, request_id, is_ajax) ==
    LET found == {r \in requests : r.id = request_id /\ r.target = user} IN
    /\ IF found = {}
       THEN /\ resp' = Response("request_accept", user, request_id, is_ajax, 404, FALSE)
            /\ UNCHANGED <<requests, threads, thread_seq>>
       ELSE LET cr == CHOOSE r \in found : TRUE IN
            IF _is_blocked(user, cr.requester)
            THEN /\ resp' = Flash(Response("request_accept", user, request_id, is_ajax,
                                     IF is_ajax THEN 400 ELSE 302, TRUE), "error")
                 /\ UNCHANGED <<requests, threads, thread_seq>>
            ELSE AcceptAndOpenThread(user, cr, is_ajax)
    /\ UNCHANGED <<now, pay_inflight, chat_messages, received, blocks, req_seq, dms, inflight>>

\* request_decline: POST by user for the ChatRequest with id request_id
request_decline(user, request_id, is_ajax) ==
    LET found == {r \in requests : r.id = request_id /\ r.target = user} IN
    /\ IF found = {}
       THEN /\ resp' = Response("request_decline", user, request_id, is_ajax, 404, FALSE)
            /\ UNCHANGED requests
       ELSE LET cr == CHOOSE r \in found : TRUE IN
            /\ requests' = decline(cr)
            /\ resp' = Flash(Response("request_decline", user, request_id, is_ajax,
                                IF is_ajax THEN 200 ELSE 302, FALSE), "info")
    /\ UNCHANGED <<now, pay_inflight, chat_messages, received, blocks, req_seq, threads, thread_seq, dms, inflight>>

\* request_cancel: POST by the requester for a pending ChatRequest
request_cancel(user, request_id, is_ajax) ==
    LET found == {r \in requests : r.id = request_id /\ r.requester = user
                                   /\ r.status = STATUS_REQUESTED} IN
    /\ IF found = {}
       THEN /\ resp' = Response("request_cancel", user, request_id, is_ajax, 404, FALSE)
            /\ UNCHANGED requests
       ELSE /\ requests' = requests \ found
            /\ resp' = Flash(Response("request_cancel", user, request_id, is_ajax,
                                IF is_ajax THEN 200 ELSE 302, FALSE), "info")
    /\ UNCHANGED <<now, pay_inflight, chat_messages, received, blocks, req_seq, threads, thread_seq, dms, inflight>>

\* private_start: GET by user for the user with id other
private_start(user, other) ==
    LET pair == ThreadPair(user, other)
        has_accepted == RequestsBetween(user, other, STATUS_ACCEPTED) # {}
        created == PendingFrom(user, other) = {}
    IN
    /\ IF other = user
       THEN /\ resp' = Response("private_start", user, other, FALSE, 302, FALSE)
            /\ UNCHANGED <<requests, req_seq, threads, thread_seq>>
       ELSE IF _is_blocked(user, other)
       THEN /\ resp' = Flash(Response("private_start", user, other, FALSE, 302, TRUE), "error")
            /\ UNCHANGED <<requests, req_seq, threads, thread_seq>>
       ELSE IF has_accepted
       THEN /\ threads' = ThreadGetOrCreate(pair[1], pair[2])
            /\ thread_seq' = IF ThreadsOf(pair[1], pair[2]) = {} THEN thread_seq + 1 ELSE thread_seq
            /\ resp' = Response("private_start", user, other, FALSE, 302, FALSE)
            /\ UNCHANGED <<requests, req_seq>>
       ELSE IF ThreadsOf(pair[1], pair[2]) # {}
       THEN /\ resp' = Flash(Response("private_start", user, other, FALSE, 302, FALSE), "warning")
            /\ UNCHANGED <<requests, req_seq, threads, thread_seq>>
       ELSE /\ created => req_seq < MaxRequests
            /\ requests' = RequestGetOrCreate(user, other)
            /\ req_seq' = IF created THEN req_seq + 1 ELSE req_seq
            /\ resp' = Flash(Response("private_start", user, other, FALSE, 302, FALSE), "info")
            /\ UNCHANGED <<threads, thread_seq>>
    /\ UNCHANGED <<now, pay_inflight, chat_messages, received, blocks, dms, inflight>>

\* private_chat: GET of the page of the thread with id thread_id
private_chat(user, thread_id) ==
    LET found == {t \in threads : t.id = thread_id} IN
    /\ IF found = {}
       THEN resp' = Response("private_chat", user, thread_id, FALSE, 404, FALSE)
       ELSE LET thread == CHOOSE t \in found : TRUE IN
            IF user \notin participants(thread)
            THEN resp' = Response("private_chat", user, thread_id, FALSE, 403, FALSE)
            ELSE LET is_blocked == _is_blocked(thread.user1, thread.user2) IN
                 \* the page is rendered with the flags is_blocked and can_write
                 resp' = Response("private_chat", user, thread_id, FALSE, 200, is_blocked)
    /\ UNCHANGED <<now, pay_inflight, chat_messages, received, blocks, requests, req_seq, threads, thread_seq, dms, inflight>>

\* block_user from the update of the requests on (lines 530-536)
InvalidateRequests(user, other) ==
    {IF \/ (r.requester = user /\ r.target = other)
        \/ (r.requester = other /\ r.target = user)
     THEN [r EXCEPT !.status = STATUS_DECLINED]
     ELSE r : r \in requests}

\* block_user: POST by user for the user with id other
block_user(user, other) ==
    /\ IF other = user
       THEN /\ resp' = Response("block_user", user, other, FALSE, 302, FALSE)
            /\ UNCHANGED <<blocks, requests>>
       ELSE /\ blocks' = blocks \cup {<<user, other>>}
            /\ requests' = InvalidateRequests(user, other)
            /\ resp' = Flash(Response("block_user", user, other, FALSE, 302, FALSE), "success")
    /\ UNCHANGED <<now, pay_inflight, chat_messages, received, req_seq, threads, thread_seq, dms, inflight>>

\* unblock_user: POST by user for the user with id other
unblock_user(user, other) ==
    /\ blocks' = blocks \ {<<user, other>>}
    /\ requests' = {IF /\ \/ (r.requester = user /\ r.target = other)
                          \/ (r.requester = other /\ r.target = user)
                       /\ r.status = STATUS_ACCEPTED
                    THEN [r EXCEPT !.status = STATUS_DECLINED]
                    ELSE r : r \in requests}
    /\ resp' = Flash(Response("unblock_user", user, other, FALSE, 302, FALSE), "success")
    /\ UNCHANGED <<now, pay_inflight, chat_messages, received, req_seq, threads, thread_seq, dms, inflight>>

\* the texts a client posts, and str.strip() on them
Texts == {"", " ", "hi"}
strip(text) == IF text = " " THEN "" ELSE text

\* limit = min(int(request.GET.get("limit", 50)), 100); limit is {} when the
\* parameter is absent and {n} when it is the integer n
DefaultLimit == 50
LimitCap == 100
Min(a, b) == IF a < b THEN a ELSE b
PageLimit(limit) == IF limit = {} THEN DefaultLimit ELSE Min(CHOOSE n \in limit : TRUE, LimitCap)

\* the ids in S in increasing order (rows are ordered by created_at, the order of insertion)
RECURSIVE SortedIds(_)
SortedIds(S) ==
    IF S = {} THEN <<>>
    ELSE LET m == CHOOSE x \in S : \A y \in S : x <= y IN <<m>> \o SortedIds(S \ {m})

\* the n newest rows instead of the n oldest
Take_newest(seq, n) == SubSeq(seq, Len(seq) - Min(n, Len(seq)) + 1, Len(seq))

Take(seq, n) == SubSeq(seq, 1, Min(n, Len(seq)))

\* qs.filter(id__gt=after)[:limit] over the messages of a thread; after = 0 stands
\* for an absent after_id
MessagesPage(thread_id, after, limit) ==
    Take(SortedIds({m.id : m \in {d \in dms : d.thread = thread_id /\ d.id > after}}),
         PageLimit(limit))

\* private_messages_api: GET of the messages of the thread with id thread_id
private_messages_api(user, thread_id, after, limit) ==
    LET found == {t \in threads : t.id = thread_id} IN
    /\ IF found = {}
       THEN resp' = Response("private_messages_api", user, thread_id, FALSE, 404, FALSE)
       ELSE LET thread == CHOOSE t \in found : TRUE IN
            IF user \notin participants(thread)
            THEN resp' = Response("private_messages_api", user, thread_id, FALSE, 403, FALSE)
            ELSE IF _is_blocked(thread.user1, thread.user2)
            THEN resp' = Response("private_messages_api", user, thread_id, FALSE, 403, TRUE)
            ELSE resp' = [Response("private_messages_api", user, thread_id, FALSE, 200, FALSE)
                            EXCEPT !.body = MessagesPage(thread_id, after, limit)]
    /\ UNCHANGED <<now, pay_inflight, chat_messages, blocks, requests, req_seq, threads, thread_seq, dms, inflight>>

\* private_post_message_api: POST of a message to the thread with id thread_id
private_post_message_api(user, thread_id, text) ==
    LET found == {t \in threads : t.id = thread_id} IN
    /\ IF found = {}
       THEN /\ resp' = Response("private_post_message_api", user, thread_id, FALSE, 404, FALSE)
            /\ UNCHANGED dms
       ELSE LET thread == CHOOSE t \in found : TRUE IN
            IF user \notin participants(thread)
            THEN /\ resp' = Response("private_post_message_api", user, thread_id, FALSE, 403, FALSE)
                 /\ UNCHANGED dms
            ELSE IF _is_blocked(thread.user1, thread.user2)
            THEN /\ resp' = Response("private_post_message_api", user, thread_id, FALSE, 403, TRUE)
                 /\ UNCHANGED dms
            ELSE IF strip(text) = ""
            THEN /\ resp' = Response("private_post_message_api", user, thread_id, FALSE, 400, FALSE)
                 /\ UNCHANGED dms
            ELSE /\ Cardinality(dms) < MaxMessages
                 /\ dms' = dms \cup {[id |-> Cardinality(dms) + 1, thread |-> thread_id,
                                      user |-> user, text |-> strip(text)]}
                 /\ resp' = Response("private_post_message_api", user, thread_id, FALSE, 200, FALSE)
    /\ UNCHANGED <<now, pay_inflight, chat_messages, received, blocks, requests, req_seq, threads, thread_seq, inflight>>

(* ------------------------- the public room and polling ------------------- *)
\* the number of messages posted to the public room
MaxPosts == 3

\* qs.filter(id__gt=after)[:limit] over the messages of the public room; after = 0
\* stands for an absent after_id
PublicPage(after, limit) ==
    Take(SortedIds({m.id : m \in {c \in chat_messages : c.id > after}}), PageLimit(limit))

\* messages_api: GET of the messages of the public room; what the caller does with the
\* answer is the caller's part of the step
messages_api(user, after, limit) ==
    /\ resp' = [Response("messages_api", user, 0, FALSE, 200, FALSE)
                   EXCEPT !.body = PublicPage(after, limit)]
    /\ UNCHANGED <<now, pay_inflight, chat_messages, blocks, requests, req_seq, threads, thread_seq, dms,
                   inflight>>

\* post_message_api: POST of a message to the public room
post_message_api(user, text) ==
    /\ IF strip(text) = ""
       THEN /\ resp' = Response("post_message_api", user, 0, FALSE, 400, FALSE)
            /\ UNCHANGED chat_messages
       ELSE /\ Cardinality(chat_messages) < MaxPosts
            /\ chat_messages' = chat_messages \cup
                   {[id |-> Cardinality(chat_messages) + 1, user |-> user, text |-> strip(text)]}
            /\ resp' = Response("post_message_api", user, 0, FALSE, 200, FALSE)
    /\ UNCHANGED <<now, pay_inflight, received, blocks, requests, req_seq, threads, thread_seq, dms,
                   inflight>>

\* the last id a client has received on a channel, 0 when it has received none
LastId(channel) ==
    IF received[channel] = <<>> THEN 0 ELSE received[channel][Len(received[channel])]

\* incremental polling of the public room: after_id is the last id received, and the
\* messages of the answer are appended to what the client has
poll_messages(user, limit) ==
    /\ messages_api(user, LastId(0), limit)
    /\ received' = [received EXCEPT ![0] = @ \o resp'.body]

\* incremental polling of a private conversation
poll_private_messages(user, thread_id, limit) ==
    /\ private_messages_api(user, thread_id, LastId(thread_id), limit)
    /\ received' = [received EXCEPT ![thread_id] = IF resp'.status = 200 THEN @ \o resp'.body ELSE @]

(* ---- block_user and request_accept as the separate DB statements they are ---- *)
\* block_user up to BlockedUser.objects.get_or_create (lines 523-528)
block_user_get_or_create(user, other) ==
    /\ inflight[user].pc = "idle"
    /\ IF other = user
       THEN /\ resp' = Response("block_user", user, other, FALSE, 302, FALSE)
            /\ UNCHANGED <<blocks, inflight>>
       ELSE /\ blocks' = blocks \cup {<<user, other>>}
            /\ inflight' = [inflight EXCEPT ![user] = [Idle EXCEPT !.pc = "block_update", !.other = other]]
            /\ resp' = NoResp
    /\ UNCHANGED <<now, pay_inflight, chat_messages, received, requests, req_seq, threads, thread_seq, dms>>

\* block_user from the update of the requests to the response (lines 530-536)
block_user_update(user) ==
    /\ inflight[user].pc = "block_update"
    /\ requests' = InvalidateRequests(user, inflight[user].other)
    /\ resp' = Flash(Response("block_user", user, inflight[user].other, FALSE, 302, FALSE), "success")
    /\ inflight' = [inflight EXCEPT ![user] = Idle]
    /\ UNCHANGED <<now, pay_inflight, chat_messages, received, blocks, req_seq, threads, thread_seq, dms>>

\* request_accept up to the block check (lines 462-468)
request_accept_check(user, request_id, is_ajax) ==
    LET found == {r \in requests : r.id = request_id /\ r.target = user} IN
    /\ inflight[user].pc = "idle"
    /\ IF found = {}
       THEN /\ resp' = Response("request_accept", user, request_id, is_ajax, 404, FALSE)
            /\ UNCHANGED inflight
       ELSE LET cr == CHOOSE r \in found : TRUE IN
            IF _is_blocked(user, cr.requester)
            THEN /\ resp' = Flash(Response("request_accept", user, request_id, is_ajax,
                                     IF is_ajax THEN 400 ELSE 302, TRUE), "error")
                 /\ UNCHANGED inflight
            ELSE /\ inflight' = [inflight EXCEPT ![user] =
                                    [pc |-> "accept", other |-> cr.requester, cr |-> cr.id,
                                     cr_status |-> cr.status, is_ajax |-> is_ajax]]
                 /\ resp' = NoResp
    /\ UNCHANGED <<now, pay_inflight, chat_messages, received, blocks, requests, req_seq, threads, thread_seq, dms>>

\* request_accept from cr.accept() to the response (lines 470-483)
request_accept_save(user) ==
    LET f == inflight[user]
        cr == [id |-> f.cr, requester |-> f.other, target |-> user,
               status |-> f.cr_status, responded_at |-> 0]
    IN
    /\ f.pc = "accept"
    /\ AcceptAndOpenThread(user, cr, f.is_ajax)
    /\ inflight' = [inflight EXCEPT ![user] = Idle]
    /\ UNCHANGED <<now, pay_inflight, chat_messages, received, blocks, req_seq, dms>>

(* ------------------------------ mercado -------------------------------- *)
STATUS_PENDING == "pending"
STATUS_PAID == "paid"
TYPE_NEW_SALE == "new_sale"
TYPE_PRODUCT_SOLD_OUT == "product_sold_out"
TYPE_LOW_STOCK == "low_stock"

\* the id the table hands to a new row
NewId(rows) == IF rows = {} THEN 1 ELSE (CHOOSE i \in {r.id : r \in rows} : \A r \in rows : r.id <= i) + 1

\* Product.is_available
is_available(product) == product.active /\ product.stock > 0

ProductById(id) == CHOOSE p \in products : p.id = id

\* the position in the cart of the CartItem for a product, 0 when there is none
ItemIndex(user, product_id) ==
    IF \E k \in 1..Len(cart_items[user]) : cart_items[user][k].product = product_id
    THEN CHOOSE k \in 1..Len(cart_items[user]) : cart_items[user][k].product = product_id
    ELSE 0

\* the CartItem rows after the one at position k of the user's cart is deleted
DeleteItem(user, k) ==
    [cart_items EXCEPT ![user] = SubSeq(@, 1, k - 1) \o SubSeq(@, k + 1, Len(@))]

\* CartItem.subtotal and Cart.total
\* the price of one unit, whatever the quantity
CartItemSubtotal_unit(item) == ProductById(item.product).price

CartItemSubtotal(item) == ProductById(item.product).price * item.quantity

RECURSIVE SumSubtotals(_)
SumSubtotals(items) ==
    IF items = <<>> THEN 0 ELSE CartItemSubtotal(Head(items)) + SumSubtotals(Tail(items))

CartTotal(user) == SumSubtotals(cart_items[user])

\* Cart.save: a row of Cart gets updated_at = now when it is saved, and the only save
\* is the INSERT of get_or_create; a deleted cart has no row
Cart_save(new_carts) ==
    [u \in Users |-> IF u \notin new_carts THEN 0
                     ELSE IF u \notin carts THEN now ELSE cart_updated_at[u]]

\* what a step does to the timestamps of the carts, given the carts and items it leaves
CartTimestamps ==
    /\ cart_updated_at' = Cart_save(carts')
    /\ cart_touched_at' = [u \in Users |->
                              IF u \notin carts' THEN 0
                              ELSE IF u \notin carts \/ cart_items'[u] # cart_items[u] THEN now
                              ELSE cart_touched_at[u]]

\* add_item that leaves the CartItem it created (quantity 1, the default) in the cart
add_item_keeps_created(user, product, quantity) ==
    LET k == ItemIndex(user, product.id)
        created == k = 0
        new_qty == IF created THEN quantity ELSE cart_items[user][k].quantity + quantity
    IN
    IF ~is_available(product)
    THEN <<FALSE, carts, cart_items>>
    ELSE IF new_qty > product.stock
    THEN <<FALSE, carts \cup {user},
           IF created
           THEN [cart_items EXCEPT ![user] = Append(@, [product |-> product.id, quantity |-> 1])]
           ELSE cart_items>>
    ELSE IF created
    THEN <<TRUE, carts \cup {user},
           [cart_items EXCEPT ![user] = Append(@, [product |-> product.id, quantity |-> new_qty])]>>
    ELSE <<TRUE, carts \cup {user}, [cart_items EXCEPT ![user][k].quantity = new_qty]>>

\* CartService.add_item(user, product, quantity):
\* <<success, the Cart rows afterwards, the CartItem rows afterwards>>
add_item(user, product, quantity) ==
    LET k == ItemIndex(user, product.id)
        created == k = 0
        new_qty == IF created THEN quantity ELSE cart_items[user][k].quantity + quantity
    IN
    IF ~is_available(product)
    THEN <<FALSE, carts, cart_items>>
    ELSE IF new_qty > product.stock
    THEN \* an item this call created is deleted again
         <<FALSE, carts \cup {user}, cart_items>>
    ELSE IF created
    THEN <<TRUE, carts \cup {user},
           [cart_items EXCEPT ![user] = Append(@, [product |-> product.id, quantity |-> new_qty])]>>
    ELSE <<TRUE, carts \cup {user}, [cart_items EXCEPT ![user][k].quantity = new_qty]>>

\* add_to_cart: POST by user for the product with id product_id
add_to_cart(user, product_id) ==
    LET found == {p \in products : p.id = product_id} IN
    /\ IF found = {}
       THEN /\ resp' = Response("add_to_cart", user, product_id, FALSE, 404, FALSE)
            /\ UNCHANGED <<carts, cart_items>>
       ELSE LET result == add_item(user, CHOOSE p \in found : TRUE, 1) IN
            /\ carts' = result[2]
            /\ cart_items' = result[3]
            /\ resp' = Flash(Response("add_to_cart", user, product_id, FALSE, 302, FALSE),
                             IF result[1] THEN "success" ELSE "error")
    /\ UNCHANGED <<chatVarsButResp, accounts, is_staff, is_superuser, mp_connected, products, prod_seq,
                   orders, order_items, notifications>>
    /\ CartTimestamps

\* increase_quantity without the comparison with the stock
increase_quantity_unchecked(user, product_id) ==
    LET k == ItemIndex(user, product_id) IN
    IF k = 0
    THEN <<FALSE, cart_items>>
    ELSE <<TRUE, [cart_items EXCEPT ![user][k].quantity = @ + 1]>>

\* CartService.increase_quantity: <<success, the CartItem rows afterwards>>
increase_quantity(user, product_id) ==
    LET k == ItemIndex(user, product_id) IN
    IF k = 0
    THEN <<FALSE, cart_items>>
    ELSE LET item == cart_items[user][k] IN
         IF item.quantity + 1 > ProductById(item.product).stock
         THEN <<FALSE, cart_items>>
         ELSE <<TRUE, [cart_items EXCEPT ![user][k].quantity = item.quantity + 1]>>

\* cart_increase: POST by user for the product with id product_id
cart_increase(user, product_id) ==
    LET result == increase_quantity(user, product_id) IN
    /\ carts' = carts \cup {user}
    /\ cart_items' = result[2]
    /\ resp' = Flash(Response("cart_increase", user, product_id, FALSE, 302, FALSE),
                     IF result[1] THEN "" ELSE "warning")
    /\ UNCHANGED <<chatVarsButResp, accounts, is_staff, is_superuser, mp_connected, products, prod_seq,
                   orders, order_items, notifications>>
    /\ CartTimestamps

\* CartService.decrease_quantity: <<success, the CartItem rows afterwards>>
decrease_quantity(user, product_id) ==
    LET k == ItemIndex(user, product_id) IN
    IF k = 0
    THEN <<FALSE, cart_items>>
    ELSE LET item == cart_items[user][k] IN
         IF item.quantity > 1
         THEN <<TRUE, [cart_items EXCEPT ![user][k].quantity = item.quantity - 1]>>
         ELSE <<TRUE, DeleteItem(user, k)>>

\* cart_decrease: POST by user for the product with id product_id
cart_decrease(user, product_id) ==
    /\ carts' = carts \cup {user}
    /\ cart_items' = decrease_quantity(user, product_id)[2]
    /\ resp' = Response("cart_decrease", user, product_id, FALSE, 302, FALSE)
    /\ UNCHANGED <<chatVarsButResp, accounts, is_staff, is_superuser, mp_connected, products, prod_seq,
                   orders, order_items, notifications>>
    /\ CartTimestamps

\* CartService.remove_item: <<success, the CartItem rows afterwards>>
remove_item(user, product_id) ==
    LET k == ItemIndex(user, product_id) IN
    IF k = 0 THEN <<FALSE, cart_items>> ELSE <<TRUE, DeleteItem(user, k)>>

\* cart_remove: POST by user for the product with id product_id
cart_remove(user, product_id) ==
    /\ carts' = carts \cup {user}
    /\ cart_items' = remove_item(user, product_id)[2]
    /\ resp' = Response("cart_remove", user, product_id, FALSE, 302, FALSE)
    /\ UNCHANGED <<chatVarsButResp, accounts, is_staff, is_superuser, mp_connected, products, prod_seq,
                   orders, order_items, notifications>>
    /\ CartTimestamps

(* ------------------------ products, orders, bans ------------------------ *)
\* ProductForm.is_valid() on the edit form: clean_price and clean_stock
ProductFormIsValid(price, stock) == price > 0 /\ stock >= 0

\* product_edit: POST by user of the form for the product with id pk; the title
\* field is disabled on an existing product and keeps its value
product_edit(user, pk, price, stock, active) ==
    LET found == {p \in products : p.id = pk /\ p.seller = user} IN
    /\ IF found = {}
       THEN /\ resp' = Response("product_edit", user, pk, FALSE, 404, FALSE)
            /\ UNCHANGED products
       ELSE IF ~ProductFormIsValid(price, stock)
       THEN /\ resp' = Response("product_edit", user, pk, FALSE, 200, FALSE)
            /\ UNCHANGED products
       ELSE LET product == CHOOSE p \in found : TRUE IN
            /\ products' = (products \ {product}) \cup
                  {[product EXCEPT !.price = price, !.stock = stock, !.active = active]}
            /\ resp' = Flash(Response("product_edit", user, pk, FALSE, 302, FALSE), "success")
    /\ UNCHANGED <<chatVarsButResp, accounts, is_staff, is_superuser, mp_connected, prod_seq, carts,
                   cart_items, orders, order_items, notifications>>
    /\ CartTimestamps

\* the CartItem rows after the products with an id in deleted are deleted
\* (the pre_delete signal and on_delete=CASCADE)
CartItemsAfterProductDelete(deleted) ==
    [u \in DOMAIN cart_items |->
        SelectSeq(cart_items[u], LAMBDA item : item.product \notin deleted)]

\* OrderItem.product with on_delete=CASCADE
OrderItemsCascade(deleted) ==
    {i \in order_items : i.product \notin deleted}

\* the OrderItem rows after the products with an id in deleted are deleted
\* (OrderItem.product is on_delete=SET_NULL; 0 stands for NULL)
OrderItemsAfterProductDelete(deleted) ==
    {IF i.product \in deleted THEN [i EXCEPT !.product = 0] ELSE i : i \in order_items}

\* product_delete: POST by user for the product with id pk
product_delete(user, pk) ==
    LET is_moderator_action == user \in is_staff \/ user \in is_superuser
        found == {p \in products : p.id = pk /\ (is_moderator_action \/ p.seller = user)}
    IN
    /\ IF found = {}
       THEN /\ resp' = Response("product_delete", user, pk, FALSE, 404, FALSE)
            /\ UNCHANGED <<products, cart_items, order_items>>
       ELSE /\ products' = products \ found
            /\ cart_items' = CartItemsAfterProductDelete({pk})
            /\ order_items' = OrderItemsAfterProductDelete({pk})
            /\ resp' = Flash(Response("product_delete", user, pk, FALSE, 302, FALSE), "success")
    /\ UNCHANGED <<chatVarsButResp, accounts, is_staff, is_superuser, mp_connected, prod_seq, carts,
                   orders, notifications>>
    /\ CartTimestamps

\* target_user.delete(): the rows of every table after the collector has followed
\* the foreign keys to the user
UserDelete(target) ==
    LET deleted == {p.id : p \in {q \in products : q.seller = target}}
        gone == {t.id : t \in {x \in threads : target \in participants(x)}}
    IN
    /\ accounts' = accounts \ {target}
    /\ is_staff' = is_staff \ {target}
    /\ is_superuser' = is_superuser \ {target}
    /\ mp_connected' = mp_connected \ {target}
    /\ products' = {p \in products : p.seller # target}
    /\ carts' = carts \ {target}
    /\ cart_items' = [CartItemsAfterProductDelete(deleted) EXCEPT ![target] = <<>>]
    /\ orders' = {IF o.buyer = target THEN [o EXCEPT !.buyer = 0] ELSE o : o \in orders}
    /\ order_items' = {IF i.seller = target THEN [i EXCEPT !.seller = 0] ELSE i :
                          i \in OrderItemsAfterProductDelete(deleted)}
    /\ notifications' = {n \in notifications : n.recipient # target /\ n.related_user # target}
    /\ blocks' = {b \in blocks : b[1] # target /\ b[2] # target}
    /\ requests' = {r \in requests : r.requester # target /\ r.target # target}
    /\ threads' = {t \in threads : t.id \notin gone}
    /\ dms' = {IF d.user = target THEN [d EXCEPT !.user = 0] ELSE d :
                  d \in {m \in dms : m.thread \notin gone}}

\* the HTTP methods of a request
Methods == {"GET", "POST"}

\* the check of ban_user that lets a requester through: it only looks at is_staff
\* and is_superuser of the requester
ban_user_any_moderator(user, user_id) == user \in is_staff \/ user \in is_superuser

\* the checks of ban_user on the requester and the target (lines 173-183)
MayBan(user, user_id) ==
    ~ \/ user_id = user
      \/ (user_id \in is_superuser /\ user \notin is_superuser)
      \/ (user_id \in is_staff /\ user \notin is_superuser)

\* ban_user: request by user, with an HTTP method, for the user with id user_id
ban_user(user, user_id, method) ==
    /\ IF ~(user \in is_staff \/ user \in is_superuser)
       THEN \* user_passes_test sends the caller to the login page
            /\ resp' = Response("ban_user", user, user_id, FALSE, 302, FALSE)
            /\ UNCHANGED <<accounts, is_staff, is_superuser, mp_connected, products, carts, cart_items, orders,
                           order_items, notifications, blocks, requests, threads, dms>>
       ELSE IF method # "POST"
       THEN \* sent to the confirmation page
            /\ resp' = [Response("ban_user", user, user_id, FALSE, 302, FALSE)
                           EXCEPT !.body = <<method>>]
            /\ UNCHANGED <<accounts, is_staff, is_superuser, mp_connected, products, carts, cart_items, orders,
                           order_items, notifications, blocks, requests, threads, dms>>
       ELSE IF user_id \notin accounts
       THEN /\ resp' = Response("ban_user", user, user_id, FALSE, 404, FALSE)
            /\ UNCHANGED <<accounts, is_staff, is_superuser, mp_connected, products, carts, cart_items, orders,
                           order_items, notifications, blocks, requests, threads, dms>>
       ELSE IF ~MayBan(user, user_id)
       THEN /\ resp' = Flash(Response("ban_user", user, user_id, FALSE, 302, FALSE), "error")
            /\ UNCHANGED <<accounts, is_staff, is_superuser, mp_connected, products, carts, cart_items, orders,
                           order_items, notifications, blocks, requests, threads, dms>>
       ELSE /\ UserDelete(user_id)
            /\ resp' = [Flash(Response("ban_user", user, user_id, FALSE, 302, FALSE), "success")
                           EXCEPT !.body = <<method>>]
    /\ UNCHANGED <<now, pay_inflight, chat_messages, received, req_seq, thread_seq, inflight, prod_seq>>
    /\ CartTimestamps

(* ------------------------------ checkout ------------------------------- *)
\* OrderItem.subtotal: the snapshot price times the quantity
OrderItemSubtotal(item) == item.product_price * item.quantity

RECURSIVE SumOrderItems(_)
SumOrderItems(items) ==
    IF items = {} THEN 0
    ELSE LET i == CHOOSE x \in items : TRUE IN OrderItemSubtotal(i) + SumOrderItems(items \ {i})

\* NotificationService.create_sale_notification(seller, order): the Notification
\* rows afterwards; items are the OrderItem rows at the time of the call
create_sale_notification(notifs, seller, order, items) ==
    LET items_sold == {i \in items : i.order = order.id /\ i.seller = seller} IN
    IF items_sold = {}
    THEN notifs
    ELSE notifs \cup {[id |-> NewId(notifs), recipient |-> seller,
                       notification_type |-> TYPE_NEW_SALE, related_user |-> order.buyer,
                       related_product_id |-> 0, related_order_id |-> order.id,
                       count |-> Cardinality(items_sold), total |-> SumOrderItems(items_sold)]}

\* the stock at or under which a product counts as low on stock
LowStockThreshold == 5

\* NotificationService.create_low_stock_notification(product): the Notification rows
\* afterwards; day_passed tells whether the earlier rows are older than 24 hours
create_low_stock_notification(notifs, product, day_passed) ==
    LET recent_notification ==
            /\ ~day_passed
            /\ \E n \in notifs : /\ n.recipient = product.seller
                                 /\ n.notification_type = TYPE_LOW_STOCK
                                 /\ n.related_product_id = product.id
    IN
    IF product.stock <= LowStockThreshold /\ product.stock > 0 /\ ~recent_notification
    THEN notifs \cup {[id |-> NewId(notifs), recipient |-> product.seller,
                       notification_type |-> TYPE_LOW_STOCK, related_user |-> 0,
                       related_product_id |-> product.id, related_order_id |-> 0,
                       count |-> 0, total |-> 0]}
    ELSE notifs

\* NotificationService.create_sold_out_notification(product): the Notification rows afterwards
create_sold_out_notification(notifs, product) ==
    notifs \cup {[id |-> NewId(notifs), recipient |-> product.seller,
                  notification_type |-> TYPE_PRODUCT_SOLD_OUT, related_user |-> 0,
                  related_product_id |-> product.id, related_order_id |-> 0,
                  count |-> 0, total |-> 0]}

\* the loop of create_order_from_cart over the cart items still to process;
\* st holds the tables as the transaction sees them and sellers_notified
RECURSIVE ProcessCartItems(_, _, _, _)
ProcessCartItems(todo, order, st, day_passed) ==
    IF todo = <<>> THEN st
    ELSE LET cart_item == Head(todo)
             product == CHOOSE p \in st.products : p.id = cart_item.product
         IN
         IF cart_item.quantity > product.stock
         THEN [st EXCEPT !.ok = FALSE]
         ELSE LET order_item == [id |-> NewId(st.order_items), order |-> order.id,
                                 product |-> product.id, seller |-> product.seller,
                                 product_title |-> product.title,
                                 product_price |-> product.price,
                                 quantity |-> cart_item.quantity]
                  items == st.order_items \cup {order_item}
                  sold == [product EXCEPT !.stock = @ - cart_item.quantity]
                  n1 == IF product.seller \notin st.sellers_notified
                        THEN create_sale_notification(st.notifications, product.seller, order, items)
                        ELSE st.notifications
                  n2 == IF sold.stock = 0
                        THEN create_sold_out_notification(n1, sold)
                        ELSE IF sold.stock <= LowStockThreshold
                        THEN create_low_stock_notification(n1, sold, day_passed)
                        ELSE n1
              IN
              ProcessCartItems(Tail(todo), order,
                  [ok |-> TRUE,
                   order_items |-> items,
                   products |-> (st.products \ {product}) \cup {sold},
                   notifications |-> n2,
                   sellers_notified |-> st.sellers_notified \cup {product.seller}],
                  day_passed)

\* OrderService.create_order_from_cart(cart, payment_id) for the cart of user:
\* [ok, order, order_items, products, notifications]; ok = FALSE is the ValueError
\* that rolls the transaction back
create_order_from_cart(user, payment_id, day_passed) ==
    LET order == [id |-> NewId(orders), buyer |-> user, total |-> CartTotal(user),
                  status |-> IF payment_id # "" THEN STATUS_PAID ELSE STATUS_PENDING,
                  payment_id |-> payment_id, payment_status |-> ""]
        st == ProcessCartItems(cart_items[user], order,
                  [ok |-> cart_items[user] # <<>>, order_items |-> order_items,
                   products |-> products, notifications |-> notifications,
                   sellers_notified |-> {}],
                  day_passed)
    IN
    IF cart_items[user] = <<>>
    THEN [ok |-> FALSE, order |-> order, order_items |-> order_items, products |-> products,
          notifications |-> notifications]
    ELSE [ok |-> st.ok, order |-> order, order_items |-> st.order_items,
          products |-> st.products, notifications |-> st.notifications]

\* the payment ids MercadoPago puts in the return URL; "" is an absent parameter
PaymentIds == {"", "p1"}

\* payment_success: GET by user on return from MercadoPago; approved is the answer
\* of MercadoPago for the payment (with a configured access token)
payment_success(user, payment_id, status, approved, day_passed) ==
    LET existing_order == {o \in orders : o.payment_id = payment_id}
        r == create_order_from_cart(user, payment_id, day_passed)
    IN
    /\ IF payment_id = ""
       THEN /\ resp' = Flash(Response("payment_success", user, 0, FALSE, 302, FALSE), "error")
            /\ UNCHANGED <<carts, cart_items, products, orders, order_items, notifications>>
       ELSE IF existing_order # {}
       THEN /\ resp' = Flash(Response("payment_success", user,
                                      (CHOOSE o \in existing_order : TRUE).id,
                                      FALSE, 200, FALSE), "success")
            /\ UNCHANGED <<carts, cart_items, products, orders, order_items, notifications>>
       ELSE IF ~approved
       THEN /\ resp' = Flash(Response("payment_success", user, 0, FALSE, 302, FALSE), "error")
            /\ UNCHANGED <<carts, cart_items, products, orders, order_items, notifications>>
       ELSE /\ carts' = carts \cup {user}
            /\ IF cart_items[user] = <<>>
               THEN /\ resp' = Flash(Response("payment_success", user, 0, FALSE, 302, FALSE),
                                     "warning")
                    /\ UNCHANGED <<cart_items, products, orders, order_items, notifications>>
               ELSE IF ~r.ok
               THEN /\ resp' = Flash(Response("payment_success", user, 0, FALSE, 302, FALSE),
                                     "error")
                    /\ UNCHANGED <<cart_items, products, orders, order_items, notifications>>
               ELSE /\ orders' = orders \cup {[r.order EXCEPT !.payment_status = status]}
                    /\ order_items' = r.order_items
                    /\ products' = r.products
                    /\ notifications' = r.notifications
                    /\ cart_items' = [cart_items EXCEPT ![user] = <<>>]
                    /\ resp' = Flash(Response("payment_success", user, r.order.id,
                                              FALSE, 200, FALSE), "success")
    /\ UNCHANGED <<chatVarsButResp, accounts, is_staff, is_superuser, mp_connected, prod_seq>>
    /\ CartTimestamps

(* ------- payment_success as the separate DB statements it is made of ------ *)
\* the answer of payment_success to a request for payment_id, sent at a stage
PayResponse(user, payment_id, stage, order_id, status, level) ==
    [Flash(Response("payment_success", user, order_id, FALSE, status, FALSE), level)
        EXCEPT !.body = <<payment_id, stage>>]

\* what the steps of payment_success never write
payFrame == <<now, chat_messages, received, blocks, requests, req_seq, threads, thread_seq,
              dms, inflight, accounts, is_staff, is_superuser, mp_connected, prod_seq>>

\* payment_success up to Order.objects.filter(payment_id=payment_id).first()
payment_success_lookup(w, user, payment_id, status) ==
    LET existing_order == {o \in orders : o.payment_id = payment_id} IN
    /\ pay_inflight[w].pc = "idle"
    /\ IF payment_id = ""
       THEN /\ resp' = PayResponse(user, payment_id, "lookup", 0, 302, "error")
            /\ UNCHANGED pay_inflight
       ELSE IF existing_order # {}
       THEN /\ resp' = PayResponse(user, payment_id, "lookup",
                                   (CHOOSE o \in existing_order : TRUE).id, 200, "success")
            /\ UNCHANGED pay_inflight
       ELSE /\ resp' = NoResp
            /\ pay_inflight' = [pay_inflight EXCEPT ![w] =
                   [PayIdle EXCEPT !.pc = "verify", !.user = user, !.payment_id = payment_id,
                                   !.status = status]]
    /\ UNCHANGED <<payFrame, mercadoVars>>

\* OrderService.verify_and_process_payment: the Order of the payment if there is one
\* by now, else the answer of MercadoPago
payment_success_verify(w, approved) ==
    LET rq == pay_inflight[w]
        existing_order == {o \in orders : o.payment_id = rq.payment_id}
    IN
    /\ rq.pc = "verify"
    /\ IF existing_order # {}
       THEN /\ pay_inflight' = [pay_inflight EXCEPT ![w] =
                   [rq EXCEPT !.pc = "cart", !.order = (CHOOSE o \in existing_order : TRUE).id]]
            /\ resp' = NoResp
       ELSE IF ~approved
       THEN /\ pay_inflight' = [pay_inflight EXCEPT ![w] = PayIdle]
            /\ resp' = PayResponse(rq.user, rq.payment_id, "verify", 0, 302, "error")
       ELSE /\ pay_inflight' = [pay_inflight EXCEPT ![w] = [rq EXCEPT !.pc = "cart"]]
            /\ resp' = NoResp
    /\ UNCHANGED <<payFrame, mercadoVars>>

\* CartService.get_or_create_cart and cart.items.exists()
payment_success_cart(w) ==
    LET rq == pay_inflight[w] IN
    /\ rq.pc = "cart"
    /\ carts' = carts \cup {rq.user}
    /\ IF cart_items[rq.user] = <<>>
       THEN /\ pay_inflight' = [pay_inflight EXCEPT ![w] = PayIdle]
            /\ resp' = IF rq.order # 0
                       THEN PayResponse(rq.user, rq.payment_id, "cart", rq.order, 200, "info")
                       ELSE PayResponse(rq.user, rq.payment_id, "cart", 0, 302, "warning")
       ELSE /\ pay_inflight' = [pay_inflight EXCEPT ![w] = [rq EXCEPT !.pc = "read"]]
            /\ resp' = NoResp
    /\ UNCHANGED <<payFrame, products, cart_items, orders, order_items, notifications>>
    /\ CartTimestamps

\* the transaction begins: cart.items.select_related('product', 'product__seller')
\* loads the items and their products; an empty cart raises ValueError
payment_success_read(w) ==
    LET rq == pay_inflight[w]
        items == cart_items[rq.user]
    IN
    /\ rq.pc = "read"
    /\ IF items = <<>>
       THEN /\ pay_inflight' = [pay_inflight EXCEPT ![w] = PayIdle]
            /\ resp' = PayResponse(rq.user, rq.payment_id, "read", 0, 302, "error")
       ELSE /\ pay_inflight' = [pay_inflight EXCEPT ![w] =
                   [rq EXCEPT !.pc = "write", !.items = items,
                              !.products = {ProductById(items[i].product) : i \in 1..Len(items)}]]
            /\ resp' = NoResp
    /\ UNCHANGED <<payFrame, mercadoVars>>

\* the INSERT of an Order ignores that payment_id is unique
no_unique_payment_id(payment_id) == FALSE

\* unique=True of Order.payment_id: the INSERT of a second Order with the payment_id
\* raises IntegrityError
IntegrityError(payment_id) == \E o \in orders : o.payment_id = payment_id

\* the rest of create_order_from_cart on the items and products the transaction
\* loaded: [ok, order, order_items, products, notifications]; each product.save
\* writes the stock of the loaded product to its row
create_order_from_loaded(rq, day_passed) ==
    LET order == [id |-> NewId(orders), buyer |-> rq.user, total |-> CartTotal(rq.user),
                  status |-> STATUS_PAID, payment_id |-> rq.payment_id,
                  payment_status |-> rq.status]
        st == ProcessCartItems(rq.items, order,
                  [ok |-> TRUE, order_items |-> order_items, products |-> rq.products,
                   notifications |-> notifications, sellers_notified |-> {}],
                  day_passed)
    IN
    [ok |-> st.ok, order |-> order, order_items |-> st.order_items,
     products |-> {IF \E q \in st.products : q.id = p.id /\ q \notin rq.products
                   THEN [p EXCEPT !.stock = (CHOOSE q \in st.products : q.id = p.id).stock]
                   ELSE p : p \in products},
     notifications |-> st.notifications]

\* the transaction writes: the INSERT of the Order waits for a transaction that
\* inserted the same payment_id and then raises; otherwise the items are processed,
\* the cart is emptied and payment_status saved. An exception rolls everything back
payment_success_write(w, day_passed) ==
    LET rq == pay_inflight[w]
        r == create_order_from_loaded(rq, day_passed)
    IN
    /\ rq.pc = "write"
    /\ pay_inflight' = [pay_inflight EXCEPT ![w] = PayIdle]
    /\ IF IntegrityError(rq.payment_id) \/ ~r.ok
       THEN /\ resp' = PayResponse(rq.user, rq.payment_id, "write", 0, 302, "error")
            /\ UNCHANGED <<products, cart_items, orders, order_items, notifications>>
       ELSE /\ orders' = orders \cup {r.order}
            /\ order_items' = r.order_items
            /\ products' = r.products
            /\ notifications' = r.notifications
            /\ cart_items' = [cart_items EXCEPT ![rq.user] = <<>>]
            /\ resp' = PayResponse(rq.user, rq.payment_id, "write", r.order.id, 200, "success")
    /\ UNCHANGED <<payFrame, carts>>
    /\ CartTimestamps

(* ------------------ the services called on their own -------------------- *)
\* what a service call hands back to its caller: body holds the returned values
Returned(op, user, arg, values) ==
    [Response(op, user, arg, FALSE, 0, FALSE) EXCEPT !.body = values]

\* CartService.add_item(user, product, quantity) called by a caller of the service
CartService_add_item(user, product, quantity) ==
    LET result == add_item(user, product, quantity) IN
    /\ carts' = result[2]
    /\ cart_items' = result[3]
    /\ resp' = Returned("CartService.add_item", user, product.id, <<result[1], quantity>>)
    /\ UNCHANGED <<chatVarsButResp, accounts, is_staff, is_superuser, mp_connected, products, prod_seq,
                   orders, order_items, notifications>>
    /\ CartTimestamps

\* the loop of validate_cart_for_checkout over the items still to check:
\* <<is_valid, error_message>>, the message reduced to its kind
RECURSIVE ValidateItems(_)
ValidateItems(todo) ==
    IF todo = <<>> THEN <<TRUE, "">>
    ELSE LET item == Head(todo)
             product == ProductById(item.product)
         IN
         IF ~product.active THEN <<FALSE, "ya no esta disponible">>
         ELSE IF item.quantity > product.stock THEN <<FALSE, "Stock insuficiente">>
         ELSE IF ~is_available(product) THEN <<FALSE, "no esta disponible en este momento">>
         ELSE ValidateItems(Tail(todo))

\* validate_cart_for_checkout that looks at the first item only
validate_first_item_only(user) ==
    IF cart_items[user] = <<>>
    THEN <<FALSE, "Tu carrito esta vacio">>
    ELSE ValidateItems(<<Head(cart_items[user])>>)

\* CartService.validate_cart_for_checkout(cart) for the cart of user
validate_cart_for_checkout(user) ==
    IF cart_items[user] = <<>>
    THEN <<FALSE, "Tu carrito esta vacio">>
    ELSE ValidateItems(cart_items[user])

\* CartService.validate_cart_for_checkout(cart) called for the cart of user
CartService_validate_cart_for_checkout(user) ==
    /\ user \in carts
    /\ resp' = Returned("CartService.validate_cart_for_checkout", user, 0,
                        validate_cart_for_checkout(user))
    /\ UNCHANGED <<chatVarsButResp, mercadoVars>>

\* the tables as the statements of create_order_from_cart left them when it
\* returned or raised; r is what create_order_from_cart computed
WrittenByCreateOrder(user, r) ==
    IF cart_items[user] = <<>>
    THEN [orders |-> orders, order_items |-> order_items, products |-> products,
          notifications |-> notifications, cart_items |-> cart_items]
    ELSE [orders |-> orders \cup {r.order}, order_items |-> r.order_items,
          products |-> r.products, notifications |-> r.notifications,
          cart_items |-> IF r.ok THEN [cart_items EXCEPT ![user] = <<>>] ELSE cart_items]

\* a function without the decorator: every statement is committed as it runs
autocommit(raised, written) == written

\* @transaction.atomic: the writes of a call that raised are rolled back
transaction_atomic(raised, written) ==
    IF raised
    THEN [orders |-> orders, order_items |-> order_items, products |-> products,
          notifications |-> notifications, cart_items |-> cart_items]
    ELSE written

\* OrderService.create_order_from_cart(cart, payment_id) called for the cart of
\* user; payment_id = "" is None. The unique payment_id makes the INSERT of a
\* second Order with the same payment_id raise
OrderService_create_order_from_cart(user, payment_id, day_passed) ==
    LET r == create_order_from_cart(user, payment_id, day_passed)
        duplicate == payment_id # "" /\ \E o \in orders : o.payment_id = payment_id
        raised == duplicate \/ ~r.ok
        after == transaction_atomic(raised,
                     IF duplicate /\ cart_items[user] # <<>>
                     THEN WrittenByCreateOrder(user, [r EXCEPT !.ok = FALSE,
                              !.order_items = order_items, !.products = products,
                              !.notifications = notifications])
                     ELSE WrittenByCreateOrder(user, r))
    IN
    /\ user \in carts
    /\ ~raised => Cardinality(orders) < MaxOrders
    /\ orders' = IF duplicate THEN orders ELSE after.orders
    /\ order_items' = after.order_items
    /\ products' = after.products
    /\ notifications' = after.notifications
    /\ cart_items' = after.cart_items
    /\ resp' = Returned("OrderService.create_order_from_cart", user,
                        IF raised THEN 0 ELSE r.order.id, <<~raised, payment_id>>)
    /\ UNCHANGED <<chatVarsButResp, accounts, is_staff, is_superuser, mp_connected, prod_seq, carts>>
    /\ CartTimestamps

(* ------------------------------ the webhook ----------------------------- *)
\* the topic parameter of a notification
Topics == {"payment", "merchant_order"}

\* what the gateway answers about a payment: its status, or "" for no response
GatewayStatuses == {"approved", "rejected", ""}

\* mercadopago_webhook: POST by the gateway with ?topic=..&id=..; gateway_status is the
\* gateway's answer for the payment (with a configured access token). Every branch
\* answers without writing to a table
mercadopago_webhook(topic, notification_id, gateway_status) ==
    /\ resp' = [Response("mercadopago_webhook", 0, 0, FALSE, 200, FALSE)
                   EXCEPT !.body = IF topic # "payment" THEN <<"ignored">>
                                   ELSE IF notification_id = "" THEN <<"no id">>
                                   ELSE IF gateway_status = "" THEN <<"no response">>
                                   ELSE IF gateway_status # "approved"
                                   THEN <<"not approved", notification_id>>
                                   ELSE IF \E o \in orders : o.payment_id = notification_id
                                   THEN <<"already processed", notification_id>>
                                   ELSE <<"approved", notification_id>>]
    /\ UNCHANGED <<chatVarsButResp, mercadoVars>>

(* ------------------------- cleanup_abandoned_carts ----------------------- *)
\* the last day of the logical clock
MaxDay == 3

\* the values given to --days
MaxDays == 2

\* a day passes between two commands or requests
DayPasses ==
    /\ now < MaxDay
    /\ now' = now + 1
    /\ resp' = NoResp
    /\ UNCHANGED <<blocks, requests, req_seq, threads, thread_seq, dms, chat_messages,
                   received, inflight, pay_inflight, mercadoVars>>

\* Cart.objects.filter(updated_at__lt=cutoff)
old_carts(cutoff) == {u \in carts : cart_updated_at[u] < cutoff}

\* Command.handle of cleanup_abandoned_carts with --days and --dry-run; deleting a Cart
\* deletes its CartItems (on_delete=CASCADE)
cleanup_abandoned_carts(days, dry_run) ==
    LET cutoff == now - days
        old == old_carts(cutoff)
    IN
    /\ IF old = {} \/ dry_run
       THEN UNCHANGED <<carts, cart_items>>
       ELSE /\ carts' = carts \ old
            /\ cart_items' = [u \in Users |-> IF u \in old THEN <<>> ELSE cart_items[u]]
    /\ resp' = Returned("cleanup_abandoned_carts", 0, days, <<dry_run, old>>)
    /\ UNCHANGED <<chatVarsButResp, accounts, is_staff, is_superuser, mp_connected, products, prod_seq,
                   orders, order_items, notifications>>
    /\ CartTimestamps

(* --------------------- the marketplace payment preference ---------------- *)
\* settings.MERCADOPAGO_PLATFORM_FEE_PERCENTAGE, the default
PlatformFeePercentage == 10

\* mercadopago_callback: the OAuth exchange succeeded or not; a success stores the
\* seller's access token and MercadoPago user id
mercadopago_callback(user, exchanged) ==
    /\ mp_connected' = IF exchanged THEN mp_connected \cup {user} ELSE mp_connected
    /\ resp' = Flash(Response("mercadopago_callback", user, 0, FALSE, 302, FALSE),
                     IF exchanged THEN "success" ELSE "error")
    /\ UNCHANGED <<chatVarsButResp, accounts, is_staff, is_superuser, products, prod_seq,
                   carts, cart_items, cart_updated_at, cart_touched_at, orders, order_items,
                   notifications>>

\* mercadopago_disconnect: POST that clears the MercadoPago fields of the profile
mercadopago_disconnect(user) ==
    /\ mp_connected' = mp_connected \ {user}
    /\ resp' = Flash(Response("mercadopago_disconnect", user, 0, FALSE, 302, FALSE), "success")
    /\ UNCHANGED <<chatVarsButResp, accounts, is_staff, is_superuser, products, prod_seq,
                   carts, cart_items, cart_updated_at, cart_touched_at, orders, order_items,
                   notifications>>

\* seller_totals[seller]: the subtotals of the items of the seller's products, in cents
RECURSIVE seller_totals(_, _)
seller_totals(items, seller) ==
    IF items = <<>> THEN 0
    ELSE (IF ProductById(Head(items).product).seller = seller
          THEN CartItemSubtotal(Head(items)) ELSE 0) + seller_totals(Tail(items), seller)

\* the amount cut down to whole cents
truncate_cents(hundredths, tie_up) == hundredths \div 100

\* round(x, 2) of an amount given in hundredths of a cent: the nearest cent; the
\* binary value of a float that stands for a half cent lies on either side of it
round_cents(hundredths, tie_up) ==
    LET q == hundredths \div 100
        r == hundredths % 100
    IN IF r > 50 \/ (r = 50 /\ tie_up) THEN q + 1 ELSE q

\* the disbursements of _create_marketplace_preference: one per seller in
\* seller_totals, a seller without mp_user_id is skipped
disbursements(items, tie_up) ==
    {LET total_amount == seller_totals(items, seller)
         platform_fee == round_cents(total_amount * PlatformFeePercentage, tie_up)
     IN [collector_id |-> seller, amount |-> total_amount - platform_fee,
         application_fee |-> platform_fee] :
        seller \in {ProductById(items[i].product).seller : i \in 1..Len(items)} \cap mp_connected}

\* sum(d["application_fee"] for d in disbursements)
RECURSIVE SumFees(_)
SumFees(ds) ==
    IF ds = {} THEN 0
    ELSE LET d == CHOOSE x \in ds : TRUE IN d.application_fee + SumFees(ds \ {d})

\* create_preference_cart in production (DEBUG off, MERCADOPAGO_APP_ID and the access
\* token set): created tells whether MercadoPago answers 201 with an init_point; the
\* body of the answer holds here the preference_data sent to MercadoPago
create_preference_cart(user, tie_up, created) ==
    LET valid == validate_cart_for_checkout(user)
        items == cart_items[user]
        sellers_without_mp == {ProductById(items[i].product).seller : i \in 1..Len(items)}
                                  \ mp_connected
        ds == disbursements(items, tie_up)
    IN
    /\ carts' = carts \cup {user}
    /\ resp' = IF ~valid[1]
               THEN [Response("create_preference_cart", user, 0, FALSE, 400, FALSE)
                        EXCEPT !.body = <<"cart_validation_failed">>]
               ELSE IF sellers_without_mp # {}
               THEN [Response("create_preference_cart", user, 0, FALSE, 400, FALSE)
                        EXCEPT !.body = <<"seller_mp_missing">>]
               ELSE [Response("create_preference_cart", user, 0, FALSE,
                              IF created THEN 200 ELSE 502, FALSE)
                        EXCEPT !.body = <<"preference", SumFees(ds), ds>>]
    /\ UNCHANGED <<chatVarsButResp, accounts, is_staff, is_superuser, mp_connected, products,
                   prod_seq, cart_items, orders, order_items, notifications>>
    /\ CartTimestamps

(* ------------------------- the chat specification ---------------------- *)
MercadoInit ==
    /\ accounts = Users
    /\ is_staff = {}
    /\ is_superuser = {}
    /\ mp_connected = {}
    /\ products = {}
    /\ prod_seq = 0
    /\ carts = {}
    /\ cart_updated_at = [u \in Users |-> IF u \in carts THEN now ELSE 0]
    /\ cart_touched_at = cart_updated_at
    /\ cart_items = [u \in Users |-> <<>>]
    /\ orders = {}
    /\ order_items = {}
    /\ notifications = {}

Init == ChatInit /\ MercadoInit

\* the ids a client may put in a URL: those handed out so far and one that is not
RequestIds == 1..(req_seq + 1)
ThreadIds == 1..(thread_seq + 1)

\* the views that write requests, threads or blocks with one DB statement
RequestViews ==
    \/ \E user \in accounts, other \in accounts, is_ajax \in BOOLEAN :
          request_send(user, other, is_ajax)
    \/ \E user \in accounts, id \in RequestIds, is_ajax \in BOOLEAN :
          request_decline(user, id, is_ajax)
    \/ \E user \in accounts, id \in RequestIds, is_ajax \in BOOLEAN :
          request_cancel(user, id, is_ajax)
    \/ \E user \in accounts, other \in accounts : private_start(user, other)
    \/ \E user \in accounts, other \in accounts : unblock_user(user, other)

\* the views of the private chat page and its messages
MessageViews ==
    \/ \E user \in accounts, id \in ThreadIds : private_chat(user, id)
    \/ \E user \in accounts, id \in ThreadIds, after \in 0..MaxMessages, limit \in {{}, {1}} :
          private_messages_api(user, id, after, limit) /\ UNCHANGED received
    \/ \E user \in accounts, id \in ThreadIds, text \in Texts :
          private_post_message_api(user, id, text)

\* every request is served from start to end before the next one
Next ==
    /\ \/ RequestViews
       \/ MessageViews
       \/ \E user \in accounts, id \in RequestIds, is_ajax \in BOOLEAN :
             request_accept(user, id, is_ajax)
       \/ \E user \in accounts, other \in accounts : block_user(user, other)
    /\ UNCHANGED mercadoVars

Spec == Init /\ [][Next]_vars

\* requests are served concurrently: the DB statements of block_user and of
\* request_accept interleave with each other and with the other request views
ConcNext ==
    /\ \/ RequestViews
       \/ \E user \in accounts, id \in RequestIds, is_ajax \in BOOLEAN :
             request_accept_check(user, id, is_ajax)
       \/ \E user \in accounts : request_accept_save(user)
       \/ \E user \in accounts, other \in accounts : block_user_get_or_create(user, other)
       \/ \E user \in accounts : block_user_update(user)
    /\ UNCHANGED mercadoVars

ConcSpec == Init /\ [][ConcNext]_vars

(* ---------------- the cart specification: the stock is held fixed ------- *)
\* the prices (in cents) and titles sellers enter
Prices == {2, 3}
Titles == {"t1", "t2"}

ProductIds == 1..(MaxProducts + 1)

\* the catalogue: products 1..MaxProducts of seller 1, any stock, active or not
CartInit ==
    /\ ChatInit
    /\ accounts = Users
    /\ is_staff = {}
    /\ is_superuser = {}
    /\ mp_connected = {}
    /\ \E stock \in [1..MaxProducts -> 0..MaxStock], active \in [1..MaxProducts -> BOOLEAN] :
          products = {[id |-> k, seller |-> 1, title |-> "t1", price |-> 2,
                       stock |-> stock[k], active |-> active[k]] : k \in 1..MaxProducts}
    /\ prod_seq = MaxProducts
    /\ carts = {}
    /\ cart_updated_at = [u \in Users |-> IF u \in carts THEN now ELSE 0]
    /\ cart_touched_at = cart_updated_at
    /\ cart_items = [u \in Users |-> <<>>]
    /\ orders = {}
    /\ order_items = {}
    /\ notifications = {}

CartNext ==
    \/ \E user \in accounts, id \in ProductIds : add_to_cart(user, id)
    \/ \E user \in accounts, id \in ProductIds : cart_increase(user, id)
    \/ \E user \in accounts, id \in ProductIds : cart_decrease(user, id)
    \/ \E user \in accounts, id \in ProductIds : cart_remove(user, id)

CartSpec == CartInit /\ [][CartNext]_vars

(* ------------- the order specification: a catalogue, carts, orders ------- *)
\* the price a seller may type into the edit form; 0 is refused by the form
EditPrices == Prices \cup {0}

\* the status parameter MercadoPago puts in the return URL
PaymentStatuses == {"approved"}

\* the catalogue: products 1..MaxCatalogue, sold in turn by each user, in stock and
\* active; one of the users is a superuser
OrderInit ==
    /\ ChatInit
    /\ accounts = Users
    /\ is_staff = {}
    /\ \E admin \in Users : is_superuser = {admin}
    /\ mp_connected = {}
    /\ products = {[id |-> k, seller |-> ((k - 1) % Cardinality(Users)) + 1, title |-> "t1",
                    price |-> 2, stock |-> MaxStock, active |-> TRUE] : k \in 1..MaxCatalogue}
    /\ prod_seq = MaxCatalogue
    /\ carts = {}
    /\ cart_updated_at = [u \in Users |-> IF u \in carts THEN now ELSE 0]
    /\ cart_touched_at = cart_updated_at
    /\ cart_items = [u \in Users |-> <<>>]
    /\ orders = {}
    /\ order_items = {}
    /\ notifications = {}

CatalogueIds == 1..(MaxCatalogue + 1)

OrderNext ==
    \/ \E user \in accounts, id \in CatalogueIds : add_to_cart(user, id)
    \/ \E user \in accounts, id \in CatalogueIds : cart_increase(user, id)
    \/ \E user \in accounts, id \in CatalogueIds : cart_decrease(user, id)
    \/ \E user \in accounts, id \in CatalogueIds : cart_remove(user, id)
    \/ \E user \in accounts, pk \in CatalogueIds, price \in EditPrices,
          stock \in 0..MaxStock, active \in BOOLEAN :
          product_edit(user, pk, price, stock, active)
    \/ \E user \in accounts, pk \in CatalogueIds : product_delete(user, pk)
    \/ \E user \in accounts, user_id \in Users, method \in Methods :
          ban_user(user, user_id, method)
    \/ \E user \in accounts, payment_id \in PaymentIds, status \in PaymentStatuses,
          approved \in BOOLEAN, day_passed \in BOOLEAN :
          payment_success(user, payment_id, status, approved, day_passed)

OrderSpec == OrderInit /\ [][OrderNext]_vars

(* ------- the service specification: the services called on any cart ----- *)
\* the carts a user can hold: the products of the catalogue in any order, each at
\* most once, in any quantity up to MaxStock
CartContents ==
    {items \in UNION {[1..n -> [product : 1..MaxProducts, quantity : 1..MaxStock]] :
                        n \in 0..MaxProducts} :
        \A i, j \in 1..Len(items) : i # j => items[i].product # items[j].product}

\* products 1..MaxProducts of any sellers with any stock, active or not (product k
\* costs k + 1), and a cart of user 1 filled before the sellers edited their products
ServiceInit ==
    /\ ChatInit
    /\ accounts = Users
    /\ is_staff = {}
    /\ is_superuser = {}
    /\ mp_connected = {}
    /\ \E seller \in [1..MaxProducts -> Users], stock \in [1..MaxProducts -> 0..MaxStock],
          active \in [1..MaxProducts -> BOOLEAN] :
          products = {[id |-> k, seller |-> seller[k], title |-> "t1", price |-> k + 1,
                       stock |-> stock[k], active |-> active[k]] : k \in 1..MaxProducts}
    /\ prod_seq = MaxProducts
    /\ carts = {1}
    /\ cart_updated_at = [u \in Users |-> IF u \in carts THEN now ELSE 0]
    /\ cart_touched_at = cart_updated_at
    /\ \E items \in CartContents : cart_items = [u \in Users |-> IF u = 1 THEN items ELSE <<>>]
    /\ orders = {}
    /\ order_items = {}
    /\ notifications = {}

\* the users whose carts the services are called on
Shoppers == {1}

\* "" stands for payment_id=None
ServiceNext ==
    \/ \E user \in Shoppers, product \in products, quantity \in 1..(MaxStock + 1) :
          CartService_add_item(user, product, quantity)
    \/ \E user \in Shoppers : CartService_validate_cart_for_checkout(user)
    \/ \E user \in Shoppers, payment_id \in PaymentIds, day_passed \in BOOLEAN :
          OrderService_create_order_from_cart(user, payment_id, day_passed)

ServiceSpec == ServiceInit /\ [][ServiceNext]_vars

(* -------- the moderation specification: accounts with any roles --------- *)
\* every account may be staff, superuser, both or neither; each sells one product
BanInit ==
    /\ ChatInit
    /\ accounts = Users
    /\ is_staff \in SUBSET Users
    /\ is_superuser \in SUBSET Users
    /\ mp_connected = {}
    /\ products = {[id |-> u, seller |-> u, title |-> "t1", price |-> 2,
                    stock |-> MaxStock, active |-> TRUE] : u \in Users}
    /\ prod_seq = Cardinality(Users)
    /\ carts = {}
    /\ cart_updated_at = [u \in Users |-> IF u \in carts THEN now ELSE 0]
    /\ cart_touched_at = cart_updated_at
    /\ cart_items = [u \in Users |-> <<>>]
    /\ orders = {}
    /\ order_items = {}
    /\ notifications = {}

\* the ids a moderator may put in the URL: every account ever made and one never made
UserIds == Users \cup {0}

BanNext ==
    \/ \E user \in accounts, user_id \in UserIds, method \in Methods :
          ban_user(user, user_id, method)
    \/ \E user \in accounts, id \in Users : add_to_cart(user, id)

BanSpec == BanInit /\ [][BanNext]_vars

(* ----- the webhook specification: the gateway keeps notifying the site ---- *)
WebhookNext ==
    \/ \E user \in accounts, id \in CatalogueIds : add_to_cart(user, id)
    \/ \E user \in accounts, id \in CatalogueIds : cart_decrease(user, id)
    \/ \E user \in accounts, payment_id \in PaymentIds, status \in PaymentStatuses,
          approved \in BOOLEAN, day_passed \in BOOLEAN :
          payment_success(user, payment_id, status, approved, day_passed)
    \/ \E topic \in Topics, id \in PaymentIds, gateway_status \in GatewayStatuses :
          mercadopago_webhook(topic, id, gateway_status)

\* the gateway delivers its notifications; a buyer may never come back to the site
WebhookSpec ==
    /\ OrderInit
    /\ [][WebhookNext]_vars
    /\ WF_vars(\E topic \in Topics, id \in PaymentIds, gateway_status \in GatewayStatuses :
                  mercadopago_webhook(topic, id, gateway_status))

(* ------ the cleanup specification: carts age and the command is run ------ *)
CleanupNext ==
    \/ \E user \in accounts, id \in CatalogueIds : add_to_cart(user, id)
    \/ \E user \in accounts, id \in CatalogueIds : cart_increase(user, id)
    \/ \E user \in accounts, id \in CatalogueIds : cart_decrease(user, id)
    \/ \E user \in accounts, id \in CatalogueIds : cart_remove(user, id)
    \/ DayPasses
    \/ \E days \in 1..MaxDays, dry_run \in BOOLEAN : cleanup_abandoned_carts(days, dry_run)

CleanupSpec == OrderInit /\ [][CleanupNext]_vars

(* ---- the polling specification: messages are posted while a client polls --- *)
\* users 1 and 2 have an accepted request and an open conversation
PollInit ==
    /\ now = 1
    /\ blocks = {}
    /\ requests = {[id |-> 1, requester |-> 1, target |-> 2, status |-> STATUS_ACCEPTED,
                    responded_at |-> 1]}
    /\ req_seq = 1
    /\ threads = {[id |-> 1, user1 |-> 1, user2 |-> 2]}
    /\ thread_seq = 1
    /\ dms = {}
    /\ chat_messages = {}
    /\ received = [channel \in Channels |-> <<>>]
    /\ resp = NoResp
    /\ inflight = [u \in Users |-> Idle]
    /\ pay_inflight = [w \in Workers |-> PayIdle]
    /\ MercadoInit

\* the limit parameter: absent, or a number
Limits == {{}, {1}, {2}}

\* the user whose client polls; the others post
Poller == 1

PollNext ==
    /\ \/ \E user \in accounts \ {Poller}, text \in Texts : post_message_api(user, text)
       \/ \E user \in accounts \ {Poller}, text \in Texts :
             private_post_message_api(user, 1, text)
       \/ \E user \in accounts, after \in 0..MaxPosts, limit \in Limits :
             messages_api(user, after, limit) /\ UNCHANGED received
       \/ \E user \in accounts, after \in 0..MaxMessages, limit \in Limits :
             private_messages_api(user, 1, after, limit) /\ UNCHANGED received
       \/ \E limit \in Limits : poll_messages(Poller, limit)
       \/ \E limit \in Limits : poll_private_messages(Poller, 1, limit)
    /\ UNCHANGED mercadoVars

\* the client keeps polling both channels
PollSpec ==
    /\ PollInit
    /\ [][PollNext]_vars
    /\ WF_vars(UNCHANGED mercadoVars /\ \E limit \in Limits : poll_messages(Poller, limit))
    /\ WF_vars(UNCHANGED mercadoVars /\
                   \E limit \in Limits : poll_private_messages(Poller, 1, limit))

(* -- the payment specification: payment_success requests served concurrently - *)
\* two products of user 2 with any stock, and a cart of user 1
PayInit ==
    /\ ChatInit
    /\ accounts = Users
    /\ is_staff = {}
    /\ is_superuser = {}
    /\ mp_connected = {}
    /\ \E stock \in [1..MaxProducts -> 0..MaxStock] :
          products = {[id |-> k, seller |-> 2, title |-> "t1", price |-> k + 1,
                       stock |-> stock[k], active |-> TRUE] : k \in 1..MaxProducts}
    /\ prod_seq = MaxProducts
    /\ carts = {1}
    /\ cart_updated_at = [u \in Users |-> IF u \in carts THEN now ELSE 0]
    /\ cart_touched_at = cart_updated_at
    /\ \E items \in CartContents : cart_items = [u \in Users |-> IF u = 1 THEN items ELSE <<>>]
    /\ orders = {}
    /\ order_items = {}
    /\ notifications = {}

PayNext ==
    \/ \E w \in Workers, user \in accounts, payment_id \in PaymentIds,
          status \in PaymentStatuses : payment_success_lookup(w, user, payment_id, status)
    \/ \E w \in Workers, approved \in BOOLEAN : payment_success_verify(w, approved)
    \/ \E w \in Workers : payment_success_cart(w)
    \/ \E w \in Workers : payment_success_read(w)
    \/ \E w \in Workers, day_passed \in BOOLEAN : payment_success_write(w, day_passed)

PaySpec == PayInit /\ [][PayNext]_vars

(* ---- the preference specification: sellers connect, a buyer checks out ---- *)
\* products of any sellers, all active and in stock, and a cart of user 1
PrefInit ==
    /\ ChatInit
    /\ accounts = Users
    /\ is_staff = {}
    /\ is_superuser = {}
    /\ mp_connected = {}
    /\ \E seller \in [1..MaxProducts -> Users] :
          products = {[id |-> k, seller |-> seller[k], title |-> "t1", price |-> k + 1,
                       stock |-> MaxStock, active |-> TRUE] : k \in 1..MaxProducts}
    /\ prod_seq = MaxProducts
    /\ carts = {1}
    /\ cart_updated_at = [u \in Users |-> IF u \in carts THEN now ELSE 0]
    /\ cart_touched_at = cart_updated_at
    /\ \E items \in CartContents : cart_items = [u \in Users |-> IF u = 1 THEN items ELSE <<>>]
    /\ orders = {}
    /\ order_items = {}
    /\ notifications = {}

PrefNext ==
    \/ \E user \in accounts, exchanged \in BOOLEAN : mercadopago_callback(user, exchanged)
    \/ \E user \in accounts : mercadopago_disconnect(user)
    \/ \E user \in Shoppers, id \in 1..MaxProducts : add_to_cart(user, id)
    \/ \E user \in Shoppers, tie_up \in BOOLEAN, created \in BOOLEAN :
          create_preference_cart(user, tie_up, created)

PrefSpec == PrefInit /\ [][PrefNext]_vars

(* --- the stock specification: two buyers of one product pay at the same time -- *)
\* the payment of the buyer a worker serves
BuyerPayment(w) == IF w = 1 THEN "p1" ELSE "p2"

\* product 1 of a third party has MaxStock units; each buyer has a cart with the product
StockInit ==
    /\ ChatInit
    /\ accounts = Users
    /\ is_staff = {}
    /\ is_superuser = {}
    /\ mp_connected = {}
    /\ products = {[id |-> 1, seller |-> 0, title |-> "t1", price |-> 2, stock |-> MaxStock,
                    active |-> TRUE]}
    /\ prod_seq = 1
    /\ carts = Users
    /\ cart_updated_at = [u \in Users |-> IF u \in carts THEN now ELSE 0]
    /\ cart_touched_at = cart_updated_at
    /\ \E quantity \in [Users -> 1..MaxStock] :
          cart_items = [u \in Users |-> <<[product |-> 1, quantity |-> quantity[u]]>>]
    /\ orders = {}
    /\ order_items = {}
    /\ notifications = {}

\* worker w serves the return of buyer w from MercadoPago
StockNext ==
    \/ \E w \in Workers, status \in PaymentStatuses :
          payment_success_lookup(w, w, BuyerPayment(w), status)
    \/ \E w \in Workers, approved \in BOOLEAN : payment_success_verify(w, approved)
    \/ \E w \in Workers : payment_success_cart(w)
    \/ \E w \in Workers : payment_success_read(w)
    \/ \E w \in Workers, day_passed \in BOOLEAN : payment_success_write(w, day_passed)

StockSpec == StockInit /\ [][StockNext]_vars

(* =============================== claims ================================ *)

\* a BlockedUser row exists between a and b, in either direction
BlockBetween(a, b) == <<a, b>> \in blocks \/ <<b, a>> \in blocks

\* the view refused the call: an error message or, for an AJAX call, a 4xx status
Refused(r) == r.level = "error" \/ r.status \in {400, 403}

\* C1: while a BlockedUser row exists between A and B in either direction, a
\* request_send from A to B and a request_accept by A of a request from B are both
\* refused and change nothing: no ChatRequest is created, the request keeps its
\* status, and no DirectMessageThread is created
C1_BlockRefusesRequests ==
    [][LET user == resp'.user IN
       /\ (resp'.op = "request_send" /\ resp'.arg # user /\ BlockBetween(user, resp'.arg))
          => (Refused(resp') /\ requests' = requests /\ threads' = threads)
       /\ (/\ resp'.op = "request_accept"
           /\ inflight[user].pc = "idle"
           /\ \E r \in requests : r.id = resp'.arg /\ r.target = user
                                  /\ BlockBetween(user, r.requester))
          => (Refused(resp') /\ requests' = requests /\ threads' = threads)
      ]_vars

\* a request_accept refused under a block while the request is still pending
C1_Witness ==
    /\ resp.op = "request_accept"
    /\ Refused(resp)
    /\ \E r \in requests : /\ r.id = resp.arg
                           /\ r.target = resp.user
                           /\ r.status = STATUS_REQUESTED
                           /\ BlockBetween(resp.user, r.requester)
    /\ threads = {}

\* the thread a response is about, when the caller takes part in it and a block
\* exists between its two participants
BlockedThreadOfCaller(r) ==
    {t \in threads : t.id = r.arg /\ r.user \in participants(t) /\ BlockBetween(t.user1, t.user2)}

\* C2: while a block exists in either direction between the two participants of a
\* thread, for either participant private_post_message_api answers 403 and creates no
\* DirectMessage, and private_messages_api answers 403 and returns no messages
C2_BlockRefusesMessages ==
    [][BlockedThreadOfCaller(resp') # {} =>
          /\ resp'.op = "private_post_message_api" => (resp'.status = 403 /\ dms' = dms)
          /\ resp'.op = "private_messages_api" => (resp'.status = 403 /\ resp'.body = <<>>)
      ]_vars

\* the messages of a thread that holds one are refused to a participant under a block
C2_Witness ==
    /\ resp.op = "private_messages_api"
    /\ resp.status = 403
    /\ BlockedThreadOfCaller(resp) # {}
    /\ \E d \in dms : d.thread = resp.arg

\* C3: while a block exists between the two participants of a thread, a
\* participant's GET of private_chat for that thread is answered 403
C3_PrivateChatForbidden ==
    (resp.op = "private_chat" /\ BlockedThreadOfCaller(resp) # {}) => resp.status = 403

\* a participant has been served the page of a thread whose participants are blocked
C3_Witness ==
    /\ resp.op = "private_chat"
    /\ BlockedThreadOfCaller(resp) # {}
    /\ resp.status = 200

\* the call ran to its response
Completed(r) == r.status \in {200, 302}

\* C4: when the target of a pending ChatRequest calls request_accept and no block
\* exists between the two users, the call completes and afterwards the request is
\* accepted with responded_at set and a DirectMessageThread for the pair exists
C4_AcceptOpensThread ==
    [][\A r \in requests :
          (/\ resp'.op = "request_accept"
           /\ r.id = resp'.arg
           /\ r.target = resp'.user
           /\ r.status = STATUS_REQUESTED
           /\ ~BlockBetween(r.target, r.requester))
          => /\ Completed(resp')
             /\ \E a \in requests' : /\ a.id = r.id
                                     /\ a.status = STATUS_ACCEPTED
                                     /\ a.responded_at # 0
             /\ \E t \in threads' : <<t.user1, t.user2>> = ThreadPair(r.requester, r.target)
      ]_vars

\* the target's request_accept has failed after accept(): the request is accepted
\* and the pair has no thread
C4_Witness ==
    /\ resp.op = "request_accept"
    /\ resp.status = 500
    /\ \E r \in requests : /\ r.id = resp.arg
                           /\ r.target = resp.user
                           /\ r.status = STATUS_ACCEPTED
                           /\ r.responded_at # 0
                           /\ ThreadsOf(ThreadPair(r.requester, r.target)[1],
                                        ThreadPair(r.requester, r.target)[2]) = {}

\* C5: when user A calls request_send for a different user B and no block exists
\* between them, the call completes with a redirect and afterwards a ChatRequest
\* from A to B with status 'requested' exists
C5_SendCreatesRequest ==
    [][(/\ resp'.op = "request_send"
        /\ ~resp'.is_ajax
        /\ resp'.arg # resp'.user
        /\ ~BlockBetween(resp'.user, resp'.arg))
       => /\ resp'.status = 302
          /\ \E r \in requests' : /\ r.requester = resp'.user
                                  /\ r.target = resp'.arg
                                  /\ r.status = STATUS_REQUESTED
      ]_vars

\* a request_send has failed after it created the pending request
C5_Witness ==
    /\ resp.op = "request_send"
    /\ ~resp.is_ajax
    /\ resp.status = 500
    /\ PendingFrom(resp.user, resp.arg) # {}

\* threads are stored once per unordered pair, smaller id first
OneThreadPerPair ==
    \A t1, t2 \in threads :
        /\ t1.user1 < t1.user2
        /\ (t1.user1 = t2.user1 /\ t1.user2 = t2.user2) => t1 = t2

\* private_start(A, B) creates a thread exactly when there is no block, an accepted
\* request in either direction and no thread of the pair yet, and then it creates
\* the one thread of the pair
PrivateStartThreadRule(A, B) ==
    LET pair == ThreadPair(A, B)
        may == /\ ~BlockBetween(A, B)
               /\ RequestsBetween(A, B, STATUS_ACCEPTED) # {}
               /\ ThreadsOf(pair[1], pair[2]) = {}
    IN
    /\ threads' # threads <=> may
    /\ may => \E t \in threads' : /\ t \notin threads
                                  /\ <<t.user1, t.user2>> = pair
                                  /\ threads' = threads \cup {t}
    /\ OneThreadPerPair'

\* the requests after private_start(A, B): the same rows, and at most one new row,
\* a pending request from A to B
OnlyPendingAdded(A, B) ==
    /\ requests \subseteq requests'
    /\ \A r \in requests' \ requests :
          r.requester = A /\ r.target = B /\ r.status = STATUS_REQUESTED
    /\ Cardinality(requests' \ requests) <= 1

\* C6 as stated: with neither an accepted request nor a thread, private_start(A, B)
\* ensures a pending request from A to B, whether or not a block exists
C6_PrivateStartAsStated ==
    [][(resp'.op = "private_start" /\ resp'.arg # resp'.user) =>
          LET A == resp'.user
              B == resp'.arg
              pair == ThreadPair(A, B)
          IN
          /\ PrivateStartThreadRule(A, B)
          /\ (RequestsBetween(A, B, STATUS_ACCEPTED) = {} /\ ThreadsOf(pair[1], pair[2]) = {})
             => /\ threads' = threads
                /\ OnlyPendingAdded(A, B)
                /\ \E r \in requests' : r.requester = A /\ r.target = B
                                        /\ r.status = STATUS_REQUESTED
      ]_vars

\* C6: private_start(A, B) with A # B creates a DirectMessageThread for the pair if
\* and only if no block exists between them, an accepted ChatRequest exists in
\* either direction and no thread of the pair exists yet; there is never more than
\* one thread per unordered pair; with neither an accepted request nor a thread it
\* creates no thread and, when no block exists, only ensures a pending request from
\* A to B, while under a block it changes nothing
C6_PrivateStart ==
    [][(resp'.op = "private_start" /\ resp'.arg # resp'.user) =>
          LET A == resp'.user
              B == resp'.arg
              pair == ThreadPair(A, B)
          IN
          /\ PrivateStartThreadRule(A, B)
          /\ (RequestsBetween(A, B, STATUS_ACCEPTED) = {} /\ ThreadsOf(pair[1], pair[2]) = {})
             => /\ threads' = threads
                /\ OnlyPendingAdded(A, B)
                /\ IF BlockBetween(A, B)
                   THEN requests' = requests
                   ELSE \E r \in requests' : r.requester = A /\ r.target = B
                                             /\ r.status = STATUS_REQUESTED
      ]_vars

\* private_start has just opened the thread of a pair with an accepted request
C6_Witness ==
    /\ resp.op = "private_start"
    /\ resp.arg # resp.user
    /\ RequestsBetween(resp.user, resp.arg, STATUS_ACCEPTED) # {}
    /\ \E t \in threads : <<t.user1, t.user2>> = ThreadPair(resp.user, resp.arg)
    /\ \E r \in requests : r.status = STATUS_REQUESTED

\* C7: there is at most one ChatRequest with status 'requested' for each ordered
\* (requester, target) pair
C7_OnePendingPerPair ==
    \A u \in Users, o \in Users : Cardinality(PendingFrom(u, o)) <= 1

\* a request_send that found the pending request of the pair and created none
C7_Witness ==
    /\ resp.op = "request_send"
    /\ Completed(resp)
    /\ resp.arg # resp.user
    /\ ~resp.is_blocked
    /\ Cardinality(PendingFrom(resp.user, resp.arg)) = 1

\* C8: ChatRequest.accept() and ChatRequest.decline() change a request only when
\* its status is 'requested': called on a request that is already accepted or
\* declined they leave its status and responded_at unchanged, and called on a
\* pending one they set the new status and responded_at
C8_AcceptDeclineOnlyPending ==
    [][\A r \in requests :
          (/\ resp'.op \in {"request_accept", "request_decline"}
           /\ r.id = resp'.arg
           /\ r.target = resp'.user
           /\ ~resp'.is_blocked)
          => IF r.status # STATUS_REQUESTED
             THEN r \in requests'
             ELSE [r EXCEPT !.status = IF resp'.op = "request_accept"
                                       THEN STATUS_ACCEPTED ELSE STATUS_DECLINED,
                            !.responded_at = now] \in requests'
      ]_vars

\* accept() has been called on a declined request, which stays declined
C8_Witness ==
    /\ resp.op = "request_accept"
    /\ resp.status = 500
    /\ \E r \in requests : /\ r.id = resp.arg
                           /\ r.target = resp.user
                           /\ r.status = STATUS_DECLINED
                           /\ r.responded_at # 0

\* C9: once an Order has been created, its total and the product_title,
\* product_price and quantity of each of its OrderItems never change under a later
\* product edit, product deletion, ban of the seller or buyer, or cart and checkout
\* activity, and no OrderItem is removed
C9_OrderSnapshotImmutable ==
    [][/\ \A o \in orders : \E o2 \in orders' : o2.id = o.id /\ o2.total = o.total
       /\ \A i \in order_items :
             \E i2 \in order_items' : /\ i2.id = i.id
                                      /\ i2.order = i.order
                                      /\ i2.product_title = i.product_title
                                      /\ i2.product_price = i.product_price
                                      /\ i2.quantity = i.quantity
      ]_vars

\* the seller has changed the price of a product after it was sold, and the
\* OrderItem still carries the price paid
C9_Witness ==
    /\ resp.op = "product_edit"
    /\ resp.level = "success"
    /\ \E i \in order_items, p \in products, o \in orders :
          /\ i.product = p.id
          /\ i.order = o.id
          /\ p.price # i.product_price
          /\ o.total = i.product_price * i.quantity

\* every CartItem of every cart holds between 1 and the stock of its product
QuantitiesWithinStock ==
    \A u \in Users : \A k \in 1..Len(cart_items[u]) :
        /\ 1 <= cart_items[u][k].quantity
        /\ cart_items[u][k].quantity <= ProductById(cart_items[u][k].product).stock

\* the quantity of the product in the user's cart, 0 when it is not in the cart
QuantityIn(items, user, product_id) ==
    IF \E k \in 1..Len(items[user]) : items[user][k].product = product_id
    THEN items[user][CHOOSE k \in 1..Len(items[user]) : items[user][k].product = product_id].quantity
    ELSE 0

\* the products of the catalogue other than this one keep their quantity in every cart
OthersKept(user, product_id) ==
    \A u \in Users : \A p \in ProductIds :
        (u # user \/ p # product_id) => QuantityIn(cart_items', u, p) = QuantityIn(cart_items, u, p)

\* C10: with the stock held fixed, every CartItem satisfies 1 <= quantity <= stock after
\* every add_to_cart, cart_increase, cart_decrease and cart_remove; an add or an
\* increase that would exceed the stock is refused and changes nothing, a decrease
\* lowers the quantity by exactly one, and a decrease at quantity 1 removes the item
C10_CartQuantityBounds ==
    [][LET user == resp'.user
           pid == resp'.arg
           before == QuantityIn(cart_items, user, pid)
           after == QuantityIn(cart_items', user, pid)
       IN
       /\ QuantitiesWithinStock => QuantitiesWithinStock'
       /\ products' = products
       /\ (resp'.op \in {"add_to_cart", "cart_increase"}
             /\ \E p \in products : p.id = pid /\ before + 1 > p.stock)
          => (cart_items' = cart_items /\ resp'.level \in {"error", "warning"})
       /\ (resp'.op = "cart_decrease" /\ before > 0)
          => (after = before - 1 /\ OthersKept(user, pid)
              /\ (before = 1 => after = 0))
      ]_vars

\* a cart filled up to the stock of 2 or more, and a further add refused
C10_Witness ==
    /\ resp.op = "add_to_cart"
    /\ resp.level = "error"
    /\ QuantityIn(cart_items, resp.user, resp.arg) >= 2
    /\ QuantityIn(cart_items, resp.user, resp.arg) = ProductById(resp.arg).stock

\* C11: CartService.add_item returns failure and leaves every CartItem as it was
\* when the product is inactive, has no stock, or the resulting quantity would
\* exceed the stock; for an inactive or out-of-stock product it creates no Cart
\* either, and an item a refused call created does not remain in the cart
C11_AddItemRefusals ==
    [][resp'.op = "CartService.add_item" =>
          \A p \in products :
             LET quantity == resp'.body[2]
                 before == QuantityIn(cart_items, resp'.user, p.id)
             IN
             (p.id = resp'.arg /\ (~p.active \/ p.stock = 0 \/ before + quantity > p.stock))
             => /\ resp'.body[1] = FALSE
                /\ cart_items' = cart_items
                /\ (~p.active \/ p.stock = 0) => carts' = carts
      ]_vars

\* add_item was refused for a product in stock that was not in the cart: the call
\* created the item and took it out again
C11_Witness ==
    /\ resp.op = "CartService.add_item"
    /\ resp.body[1] = FALSE
    /\ QuantityIn(cart_items, resp.user, resp.arg) = 0
    /\ \E p \in products : /\ p.id = resp.arg
                           /\ p.active
                           /\ p.stock > 0
                           /\ resp.body[2] > p.stock

\* every item of the user's cart is of an active product with stock left and
\* enough of it
CartReadyForCheckout(user) ==
    /\ cart_items[user] # <<>>
    /\ \A k \in 1..Len(cart_items[user]) :
          \E p \in products : /\ p.id = cart_items[user][k].product
                              /\ p.active
                              /\ p.stock > 0
                              /\ p.stock >= cart_items[user][k].quantity

\* C12: validate_cart_for_checkout returns (True, None) exactly when the cart has
\* at least one item and every item's product is active, has stock greater than
\* zero and at least the item's quantity; otherwise it returns False with an error
\* message; it changes nothing
C12_ValidateCart ==
    [][resp'.op = "CartService.validate_cart_for_checkout" =>
          /\ resp'.body = <<TRUE, "">> <=> CartReadyForCheckout(resp'.user)
          /\ ~CartReadyForCheckout(resp'.user) => (resp'.body[1] = FALSE /\ resp'.body[2] # "")
          /\ UNCHANGED <<chatVarsButResp, mercadoVars>>
      ]_vars

\* a cart of two items was refused because of its second item
C12_Witness ==
    /\ resp.op = "CartService.validate_cart_for_checkout"
    /\ resp.body[1] = FALSE
    /\ Len(cart_items[resp.user]) = 2
    /\ \E p \in products : /\ p.id = cart_items[resp.user][1].product
                           /\ p.active
                           /\ p.stock >= cart_items[resp.user][1].quantity

\* C13: a user is deleted only by a ban_user request that is a POST from a staff or
\* superuser account for another account and, when the target is staff or
\* superuser, from a superuser; the target's products go with it; in every other
\* case no user is deleted
C13_BanOnlyWhenAllowed ==
    [][accounts' # accounts =>
          LET user == resp'.user
              target == resp'.arg
          IN
          /\ resp'.op = "ban_user"
          /\ resp'.body = <<"POST">>
          /\ user \in is_staff \/ user \in is_superuser
          /\ target # user
          /\ (target \in is_staff \/ target \in is_superuser) => user \in is_superuser
          /\ target \in accounts
          /\ accounts' = accounts \ {target}
          /\ \A p \in products' : p.seller # target
      ]_vars

\* a moderator has banned a seller: the account and its products are gone
C13_Witness ==
    /\ resp.op = "ban_user"
    /\ resp.level = "success"
    /\ resp.arg \notin accounts
    /\ resp.user \in accounts
    /\ products # {}
    /\ \A p \in products : p.seller # resp.arg

(* C14: a 'payment' notification on the webhook for a payment the gateway reports as
   approved, with no Order of that payment_id yet, leads to an Order with that
   payment_id, whether or not the buyer comes back to payment_success *)
WebhookSawApproved(payment_id) ==
    /\ resp.op = "mercadopago_webhook"
    /\ resp.body = <<"approved", payment_id>>
    /\ ~ \E o \in orders : o.payment_id = payment_id

C14_WebhookCreatesOrder ==
    \A payment_id \in PaymentIds \ {""} :
        WebhookSawApproved(payment_id) ~> (\E o \in orders : o.payment_id = payment_id)

\* the webhook answered 200 for an approved payment of a buyer whose cart holds an
\* item, and no Order carries that payment_id
C14_Witness ==
    /\ WebhookSawApproved("p1")
    /\ resp.status = 200
    /\ \E user \in carts : cart_items[user] # <<>>

(* C15: cleanup_abandoned_carts without --dry-run deletes exactly the carts whose items
   were last added, increased, decreased or removed more than `days` days ago, and
   leaves the other carts and their items as they were; with --dry-run it deletes
   nothing *)
C15_CleanupDeletesStaleCarts ==
    [][resp'.op = "cleanup_abandoned_carts" =>
        LET days == resp'.arg
            dry_run == resp'.body[1]
            stale == {u \in carts : now - cart_touched_at[u] > days}
        IN
        IF dry_run
        THEN carts' = carts /\ cart_items' = cart_items
        ELSE /\ carts \ carts' = stale
             /\ carts' \subseteq carts
             /\ \A u \in carts' : cart_items'[u] = cart_items[u]]_vars

\* the command, run without --dry-run, has just deleted a cart
C15_Witness ==
    /\ resp.op = "cleanup_abandoned_carts"
    /\ resp.body[1] = FALSE
    /\ resp.body[2] # {}
    /\ resp.body[2] \cap carts = {}

\* the ids of the messages of a channel
ChannelIds(channel) ==
    IF channel = 0 THEN {m.id : m \in chat_messages}
    ELSE {d.id : d \in {m \in dms : m.thread = channel}}

\* body holds, in increasing order, ids of the channel greater than after, at most
\* min(limit, 100) of them (50 without a limit), and leaves out only ids that come
\* after a full page
PageOf(body, ids, after, limit) ==
    LET most == IF limit = {} THEN 50
                ELSE IF (CHOOSE n \in limit : TRUE) < 100 THEN CHOOSE n \in limit : TRUE ELSE 100
    IN
    /\ \A i \in 1..Len(body) : body[i] \in ids /\ body[i] > after
    /\ \A i, j \in 1..Len(body) : i < j => body[i] < body[j]
    /\ Len(body) <= most
    /\ \A x \in ids : (x > after /\ \A i \in 1..Len(body) : body[i] # x) =>
          (Len(body) = most /\ \A i \in 1..Len(body) : body[i] < x)

\* the client has received the messages of the channel up to some id, each once and
\* in the order of their creation
SeenOnceInOrder(channel) ==
    LET got == received[channel] IN
    /\ \A i \in 1..Len(got) : got[i] \in ChannelIds(channel)
    /\ \A i, j \in 1..Len(got) : i < j => got[i] < got[j]
    /\ \A x \in ChannelIds(channel) :
          (got # <<>> /\ x < got[Len(got)]) => \E i \in 1..Len(got) : got[i] = x

(* C16: messages_api and private_messages_api answer with the messages whose id is
   greater than after_id, in creation order, at most min(limit, 100) of them and 50
   without a limit; a client that always polls with after_id the last id it received
   has at every moment each message up to that id once and in order, and every
   message posted is eventually received *)
C16_PollingSeesEveryMessageOnce ==
    /\ [][/\ \A user \in Users, after \in 0..MaxPosts, limit \in Limits :
                messages_api(user, after, limit) =>
                    PageOf(resp'.body, ChannelIds(0), after, limit)
          /\ \A user \in Users, after \in 0..MaxMessages, limit \in Limits :
                (private_messages_api(user, 1, after, limit) /\ resp'.status = 200) =>
                    PageOf(resp'.body, ChannelIds(1), after, limit)]_vars
    /\ [](\A channel \in Channels : SeenOnceInOrder(channel))
    /\ \A channel \in Channels, id \in 1..MaxPosts :
          (id \in ChannelIds(channel)) ~> (\E i \in 1..Len(received[channel]) :
                                               received[channel][i] = id)

\* the client has received three messages of the public room and two of the private
\* conversation, in more than one poll
C16_Witness ==
    /\ received[0] = <<1, 2, 3>>
    /\ received[1] = <<1, 2>>
    /\ resp.op = "private_messages_api"
    /\ resp.body = <<2>>

\* a step in which OrderService.create_order_from_cart returns an Order
OrderCreated == resp'.op = "OrderService.create_order_from_cart" /\ resp'.body[1]

\* the sum of price times quantity over the items with index from i on
RECURSIVE PriceTimesQuantityFrom(_, _)
PriceTimesQuantityFrom(items, i) ==
    IF i > Len(items) THEN 0
    ELSE LET p == CHOOSE q \in products : q.id = items[i].product IN
         p.price * items[i].quantity + PriceTimesQuantityFrom(items, i + 1)

(* C17: a successful create_order_from_cart creates exactly one Order, whose total is
   the sum of price times quantity over the cart's items and whose status is 'paid'
   with a payment_id and 'pending' without; one OrderItem per cart item, with the
   product's current title and price and the cart quantity; each product's stock
   goes down by exactly the quantity in the cart; the cart is left without items *)
C17_OrderFromCart ==
    [][OrderCreated =>
        LET user == resp'.user
            payment_id == resp'.body[2]
            items == cart_items[user]
            new_items == order_items' \ order_items
        IN
        /\ \E o \in orders' :
              /\ orders' \ orders = {o}
              /\ o.id = resp'.arg /\ o.buyer = user /\ o.payment_id = payment_id
              /\ o.total = PriceTimesQuantityFrom(items, 1)
              /\ o.status = IF payment_id # "" THEN STATUS_PAID ELSE STATUS_PENDING
              /\ \A i \in 1..Len(items) :
                    LET p == CHOOSE q \in products : q.id = items[i].product IN
                    Cardinality({oi \in new_items :
                        /\ oi.order = o.id /\ oi.product = p.id /\ oi.seller = p.seller
                        /\ oi.product_title = p.title /\ oi.product_price = p.price
                        /\ oi.quantity = items[i].quantity}) = 1
        /\ order_items \subseteq order_items'
        /\ Cardinality(new_items) = Len(items)
        /\ products' = {[p EXCEPT !.stock = @ - QuantityIn(cart_items, user, p.id)] : p \in products}
        /\ cart_items'[user] = <<>>
        /\ \A u \in Users \ {user} : cart_items'[u] = cart_items[u]]_vars

\* an Order was made of a cart with two items, one of them with quantity 2
C17_Witness ==
    /\ resp.op = "OrderService.create_order_from_cart"
    /\ resp.body[1]
    /\ \E o \in orders :
          /\ o.id = resp.arg
          /\ Cardinality({oi \in order_items : oi.order = o.id}) = 2
          /\ \E oi \in order_items : oi.order = o.id /\ oi.quantity = 2
    /\ cart_items[resp.user] = <<>>

\* a step in which OrderService.create_order_from_cart raises
OrderRaised == resp'.op = "OrderService.create_order_from_cart" /\ ~resp'.body[1]

(* C18: when create_order_from_cart raises, for an empty cart or for an item whose
   quantity exceeds the stock, also after earlier items of the cart were processed,
   no Order, OrderItem or notification of the call exists afterwards, no stock has
   changed and the cart holds all its items *)
C18_RaiseLeavesNothing ==
    [][OrderRaised =>
        /\ orders' = orders
        /\ order_items' = order_items
        /\ notifications' = notifications
        /\ products' = products
        /\ cart_items' = cart_items]_vars

\* the call raised on the second item of a cart whose first item was in stock
C18_Witness ==
    /\ resp.op = "OrderService.create_order_from_cart"
    /\ ~resp.body[1]
    /\ orders = {}
    /\ LET items == cart_items[resp.user] IN
       /\ Len(items) = 2
       /\ \E p \in products : p.id = items[1].product /\ items[1].quantity <= p.stock
       /\ \E p \in products : p.id = items[2].product /\ items[2].quantity > p.stock

\* the Orders that carry a payment_id
OrdersOf(payment_id) == {o \in orders : o.payment_id = payment_id}

(* C19: under any interleaving of payment_success requests with the same payment_id,
   at most one Order exists for a payment_id; a step reduces a stock or empties a cart
   only when it creates the first Order of its payment_id; and a request that arrives
   when the Order exists is answered with that Order and creates nothing *)
C19_OneOrderPerPayment ==
    /\ [](\A payment_id \in PaymentIds \ {""} : Cardinality(OrdersOf(payment_id)) <= 1)
    /\ [][(products' # products \/ cart_items' # cart_items) =>
             \E o \in orders' \ orders :
                /\ orders' = orders \cup {o}
                /\ OrdersOf(o.payment_id) = {}]_vars
    /\ [][(/\ resp'.op = "payment_success"
           /\ Len(resp'.body) = 2
           /\ resp'.body[2] = "lookup"
           /\ OrdersOf(resp'.body[1]) # {}) =>
             /\ resp'.status = 200
             /\ \E o \in OrdersOf(resp'.body[1]) : resp'.arg = o.id
             /\ orders' = orders /\ order_items' = order_items
             /\ products' = products /\ cart_items' = cart_items]_vars

\* two requests with the same payment_id were both past the check for an existing
\* Order; one created the Order and the other was refused at the INSERT
C19_Witness ==
    /\ Cardinality(OrdersOf("p1")) = 1
    /\ resp.op = "payment_success"
    /\ resp.body = <<"p1", "write">>
    /\ resp.status = 302
    /\ \E p \in products : p.stock < MaxStock

\* the sum of price times quantity over the items, from index i on, of the products
\* sold by seller
RECURSIVE SellerTotalFrom(_, _, _)
SellerTotalFrom(items, i, seller) ==
    IF i > Len(items) THEN 0
    ELSE LET p == CHOOSE q \in products : q.id = items[i].product IN
         (IF p.seller = seller THEN p.price * items[i].quantity ELSE 0)
             + SellerTotalFrom(items, i + 1, seller)

(* C20: a successful create_order_from_cart gives each seller with items in the order
   exactly one 'new_sale' notification for that order, and it reports the number and
   the total of all the items of that seller in the order *)
C20_OneSaleNotificationPerSeller ==
    [][OrderCreated =>
        LET items == cart_items[resp'.user]
            SoldBy(seller) == {i \in 1..Len(items) :
                                  (CHOOSE q \in products : q.id = items[i].product).seller = seller}
            SaleNotes(seller) == {n \in notifications' \ notifications :
                                     /\ n.notification_type = TYPE_NEW_SALE
                                     /\ n.recipient = seller
                                     /\ n.related_order_id = resp'.arg}
        IN
        \A seller \in Users :
            IF SoldBy(seller) = {}
            THEN SaleNotes(seller) = {}
            ELSE \E n \in SaleNotes(seller) :
                    /\ SaleNotes(seller) = {n}
                    /\ n.count = Cardinality(SoldBy(seller))
                    /\ n.total = SellerTotalFrom(items, 1, seller)]_vars

\* an Order holds two items of one seller, who has a 'new_sale' notification for it
C20_Witness ==
    /\ resp.op = "OrderService.create_order_from_cart"
    /\ resp.body[1]
    /\ \E seller \in Users :
          /\ Cardinality({oi \in order_items : oi.order = resp.arg /\ oi.seller = seller}) = 2
          /\ \E n \in notifications :
                /\ n.notification_type = TYPE_NEW_SALE
                /\ n.recipient = seller
                /\ n.related_order_id = resp.arg

\* the sum of the amounts and the sum of the application fees of disbursements
RECURSIVE AmountsOf(_)
AmountsOf(ds) ==
    IF ds = {} THEN 0 ELSE LET d == CHOOSE x \in ds : TRUE IN d.amount + AmountsOf(ds \ {d})

RECURSIVE FeesOf(_)
FeesOf(ds) ==
    IF ds = {} THEN 0
    ELSE LET d == CHOOSE x \in ds : TRUE IN d.application_fee + FeesOf(ds \ {d})

(* C21: in the preference_data of a marketplace preference every seller with items in
   the cart has exactly one disbursement; its application_fee is the platform
   percentage of the sum of the seller's subtotals rounded to cents, and its amount
   plus application_fee is that sum; marketplace_fee is the sum of the application
   fees, and the amounts plus marketplace_fee make the cart total *)
C21_MarketplaceSplit ==
    [][(resp'.op = "create_preference_cart" /\ resp'.body[1] = "preference") =>
        LET items == cart_items[resp'.user]
            sellers == {(CHOOSE q \in products : q.id = items[i].product).seller :
                           i \in 1..Len(items)}
            marketplace_fee == resp'.body[2]
            ds == resp'.body[3]
        IN
        /\ \A seller \in sellers :
              LET mine == {d \in ds : d.collector_id = seller}
                  total == SellerTotalFrom(items, 1, seller)
              IN
              /\ Cardinality(mine) = 1
              /\ \A d \in mine :
                    /\ d.amount + d.application_fee = total
                    /\ 100 * d.application_fee - total * PlatformFeePercentage <= 50
                    /\ total * PlatformFeePercentage - 100 * d.application_fee <= 50
        /\ \A d \in ds : d.collector_id \in sellers
        /\ marketplace_fee = FeesOf(ds)
        /\ AmountsOf(ds) + marketplace_fee = PriceTimesQuantityFrom(items, 1)]_vars

\* a preference was sent for a cart with items of two sellers, one of them with a fee
\* that had to be rounded up
C21_Witness ==
    /\ resp.op = "create_preference_cart"
    /\ resp.body[1] = "preference"
    /\ Cardinality(resp.body[3]) = 2
    /\ \E d \in resp.body[3] :
          /\ d.application_fee = 1
          /\ (d.amount + d.application_fee) * PlatformFeePercentage < 100

\* no request is between two of its DB statements
AllServed == \A u \in Users : inflight[u].pc = "idle"

\* an accepted ChatRequest between a and b, in either direction
AcceptedBetween(a, b) ==
    \E cr \in requests :
        /\ cr.status = STATUS_ACCEPTED
        /\ {cr.requester, cr.target} = {a, b}

(* C22: whatever the interleaving of a request_accept with a block_user between the
   same two users, once the requests are served the state never holds both a
   BlockedUser row between the two users and an accepted ChatRequest between them *)
C22_NoBlockWithAccepted ==
    AllServed => \A a, b \in Users : ~(BlockBetween(a, b) /\ AcceptedBetween(a, b))

\* a block_user and a request_accept between users 1 and 2 have both been served
C22_Witness ==
    /\ AllServed
    /\ BlockBetween(1, 2)
    /\ \E cr \in requests : {cr.requester, cr.target} = {1, 2} /\ cr.responded_at # 0

\* the total quantity of a product over a set of OrderItems
RECURSIVE QuantityOrdered(_, _)
QuantityOrdered(ois, product_id) ==
    IF ois = {} THEN 0
    ELSE LET oi == CHOOSE x \in ois : TRUE IN
         (IF oi.product = product_id THEN oi.quantity ELSE 0)
             + QuantityOrdered(ois \ {oi}, product_id)

(* C23: whatever the interleaving of create_order_from_cart calls of different buyers
   whose carts hold the same product, the stock of the product is never negative and
   the quantity of the product over all OrderItems created never exceeds the stock the
   product had before the calls *)
C23_NoOverselling ==
    \A p \in products :
        /\ p.stock >= 0
        /\ QuantityOrdered(order_items, p.id) <= MaxStock

\* both buyers have been served and each has an Order
C23_Witness ==
    /\ \A w \in Workers : pay_inflight[w].pc = "idle"
    /\ \A u \in Users : \E o \in orders : o.buyer = u
    /\ \A u \in Users : cart_items[u] = <<>>

====
